---- MODULE Spec2Model ----
(***************************************************************************)
(* State-machine model of db_chat: the Streamlit session of app.py and the *)
(* request pipeline of DBChatBot (chat_with_db.py): two-stage routing, the *)
(* five handlers, the boundary functions run_query / get_partial_schema    *)
(* and the incremental gateway call _handle_streaming.                     *)
(*                                                                         *)
(* Text is modelled as a record [toks, json]: toks is the sequence of      *)
(* tokens of the string, json is the value of the JSON body that the token *)
(* "JSON" stands for (NoJson when the string holds none).  The substrings  *)
(* the code tests for are tokens of their own:                             *)
(*    "SORRY" = 抱歉   "ERROR" = 错误   "FAIL" = 出错   "TIMEOUT_ZH" = 超时 *)
(* so that startswith / in are computed on the text as the code does.      *)
(***************************************************************************)
EXTENDS Naturals, Sequences, FiniteSets, TLC

\* ---------------------------------------------------------------- bounds
\* exchanges submitted in one session
MaxReq == 1
\* script runs of one session that carry a submitted prompt
MaxRuns == 2
\* entries of outline["queries"]
MaxQueries == 2

\* ---------------------------------------------------------------- text
NoJson == [kind |-> "none", marks |-> {}]
Txt(toks) == [toks |-> toks, json |-> NoJson]
EmptyStr == Txt(<<>>)
\* Python None where a text is expected (no value yet)
NoStr == Txt(<<"None">>)

\* f"{a}{b}"
Cat(a, b) ==
  [toks |-> a.toks \o b.toks,
   json |-> IF b.json.kind # "none" THEN b.json ELSE a.json]

\* s.startswith(m)
StartsWith(s, m) == Len(s.toks) > 0 /\ s.toks[1] = m

\* m in s
Contains(s, m) ==
  \/ \E i \in 1..Len(s.toks) : s.toks[i] = m
  \/ (\E i \in 1..Len(s.toks) : s.toks[i] = "JSON") /\ m \in s.json.marks

\* str.lower() on one token
Lower(t) ==
  CASE t = "Timeout" -> "timeout"
    [] t = "Connection" -> "connection"
    [] OTHER -> t

\* m in s.lower()
ContainsLower(s, m) == \E i \in 1..Len(s.toks) : Lower(s.toks[i]) = m

\* " ", "\n", "\r" as tokens
Whitespace == {"SP", "NL", "CR"}

RECURSIVE LStrip(_)
LStrip(t) == IF t # <<>> /\ Head(t) \in Whitespace THEN LStrip(Tail(t)) ELSE t

RECURSIVE RStrip(_)
RStrip(t) ==
  IF t # <<>> /\ t[Len(t)] \in Whitespace THEN RStrip(SubSeq(t, 1, Len(t) - 1)) ELSE t

\* str.strip()
Strip(s) == [s EXCEPT !.toks = LStrip(RStrip(s.toks))]

IsPrefixAt(t, pat) == Len(t) >= Len(pat) /\ SubSeq(t, 1, Len(pat)) = pat

\* t.replace(pat, ''): leftmost non-overlapping occurrences, one pass
RECURSIVE Remove(_, _)
Remove(t, pat) ==
  IF t = <<>> THEN <<>>
  ELSE IF IsPrefixAt(t, pat) THEN Remove(SubSeq(t, Len(pat) + 1, Len(t)), pat)
  ELSE <<Head(t)>> \o Remove(Tail(t), pat)

\* one backquote is the token "BT"; a code fence is three of them
Fence == <<"BT", "BT", "BT">>
FenceJson == Fence \o <<"json">>
FenceSql == Fence \o <<"sql">>

\* DBChatBot._clean_json_response
CleanJsonResponse(s) ==
  LET cleaned == Strip([s EXCEPT !.toks = Remove(Remove(s.toks, FenceJson), Fence)])
  IN [cleaned EXCEPT !.toks = Remove(Remove(cleaned.toks, <<"NL">>), <<"CR">>)]

\* DBChatBot.clean_sql_query
CleanSqlQuery(s) ==
  Strip([s EXCEPT !.toks = Remove(Remove(s.toks, FenceSql), Fence)])

\* json.loads: [ok, value]; the text parses iff it is one JSON body,
\* surrounding whitespace allowed
JsonLoads(s) ==
  LET body == SelectSeq(s.toks, LAMBDA c : c \notin Whitespace)
  IN IF body = <<"JSON">> /\ s.json.kind # "none"
     THEN [ok |-> TRUE, value |-> s.json]
     ELSE [ok |-> FALSE, value |-> NoJson]

\* dict.get(key): "None" when the key is absent
Get(o, key) == IF key \in o.has THEN o.val[key] ELSE "None"

\* not x, for the values a JSON string field takes here
Falsy(v) == v \in {"None", ""}

\* ---------------------------------------------------------------- environment
Questions == {"q"}

\* str(e) of the exceptions the gateway, the database and the renderers raise
ExcMsgs == {Txt(<<"Timeout">>), Txt(<<"connection">>), Txt(<<"oops">>)}

\* the one message used where the code only embeds str(e)
SomeExc == Txt(<<"oops">>)

\* surface forms the model returns a JSON body in
Plain(v) == [toks |-> <<"JSON">>, json |-> v]
Fenced(v) == [toks |-> FenceJson \o <<"NL", "JSON", "NL">> \o Fence, json |-> v]
Garbage == Txt(<<"txt">>)


\* ---------------------------------------------------------------- JSON values
\* a JSON object holding at most the key k, with value v
KeyObj(k, v) ==
  [kind |-> "object", marks |-> {}, has |-> {k},
   val |-> [type |-> v, sub_type |-> v]]
EmptyObj ==
  [kind |-> "object", marks |-> {}, has |-> {},
   val |-> [type |-> "None", sub_type |-> "None"]]
\* a JSON value that is no object (a list): it has no .get
ArrayVal == [kind |-> "array", marks |-> {}]
\* a JSON number: it is no container
NumberVal == [kind |-> "number", marks |-> {}]

TopTypes == {"sql_query", "report", "visualization", "chat"}
SubTypes == {"db_structure", "sql_data"}

\* what the classification model may answer for key k, the allowed values being ok
RouterTexts(k, ok) ==
  {Plain(KeyObj(k, t)) : t \in ok \cup {"other", ""}}
  \cup {Fenced(KeyObj(k, t)) : t \in ok \cap {"chat", "db_structure"}}
  \cup {Plain(EmptyObj), Plain(ArrayVal), Garbage}

\* outcome of the blocking call non_streaming_llm.invoke: it raises or answers
InvokeOutcomes(texts) ==
  {[exc |-> NoStr, text |-> t] : t \in texts}
  \cup {[exc |-> SomeExc, text |-> EmptyStr]}

\* ---------------------------------------------------------------- messages
\* "抱歉，服务暂时响应较慢或不可用: {e}\n建议稍后重试。"
MsgServiceSlow(e) ==
  Cat(Cat(Txt(<<"SORRY", "service_slow_or_unavailable">>), e), Txt(<<"NL", "retry_later">>))
\* "路由返回的不是有效的JSON格式: {route_text}"
MsgRouteNotJson(t) == Cat(Txt(<<"route_not_valid_json">>), t)
\* "无法解析路由结果，缺少 'type' 字段: {route_result}"
MsgMissingType == Txt(<<"route_missing_type", "repr">>)
\* "未知的type: {top_type}"
MsgUnknownType(t) == Txt(<<"unknown_type", t>>)
\* "SQL子路由返回的不是有效的JSON格式: {sub_route_text}"
MsgSubRouteNotJson(t) == Cat(Txt(<<"sub_route_not_valid_json">>), t)
\* "SQL子路由处理失败: {str(e)}"
MsgSubRouteFailed(e) == Cat(Txt(<<"sub_route_failed">>), e)
\* "无法解析子路由结果，缺少 'sub_type': {sub_route_result}"
MsgMissingSubType == Txt(<<"sub_route_missing_sub_type", "repr">>)
\* "未知的sub_type: {sub_type}"
MsgUnknownSubType(t) == Txt(<<"unknown_sub_type", t>>)
\* "抱歉，处理您的问题时出现错误: {e}"
MsgApology(e) == Cat(Txt(<<"SORRY", "processing_question", "ERROR">>), e)
\* AttributeError: '...' object has no attribute 'get'
AttributeError == Txt(<<"no_attribute_get">>)

\* ---------------------------------------------------------------- routing
\* a dispatch that sends report to the chart handler and visualization to the
\* report handler
DispatchSwapped(top, sub) ==
  IF top = "sql_query"
  THEN (IF sub = "db_structure" THEN "handle_db_structure"
        ELSE IF sub = "sql_data" THEN "handle_sql_data"
        ELSE "none")
  ELSE IF top = "report" THEN "handle_visualization"
  ELSE IF top = "visualization" THEN "handle_report"
  ELSE IF top = "chat" THEN "handle_chat"
  ELSE "none"

\* a dispatch that falls back to the chat handler for an unknown type
DispatchFailOpen(top, sub) ==
  IF top = "sql_query"
  THEN (IF sub = "db_structure" THEN "handle_db_structure"
        ELSE IF sub = "sql_data" THEN "handle_sql_data"
        ELSE "none")
  ELSE IF top = "report" THEN "handle_report"
  ELSE IF top = "visualization" THEN "handle_visualization"
  ELSE "handle_chat"

\* the dispatch of route_and_process: the handler for (type, sub_type), or "none"
Dispatch(top, sub) ==
  IF top = "sql_query"
  THEN (IF sub = "db_structure" THEN "handle_db_structure"
        ELSE IF sub = "sql_data" THEN "handle_sql_data"
        ELSE "none")
  ELSE IF top = "report" THEN "handle_report"
  ELSE IF top = "visualization" THEN "handle_visualization"
  ELSE IF top = "chat" THEN "handle_chat"
  ELSE "none"

\* where each handler starts
HandlerEntry(h) ==
  CASE h = "handle_db_structure" -> "ds_schema"
    [] h = "handle_sql_data" -> "sd_schema"
    [] h = "handle_report" -> "rp_schema"
    [] h = "handle_visualization" -> "vz_schema"
    [] h = "handle_chat" -> "ch_stream"

\* a test that sends report through the second classification too
NeedsSubRouteReport(top_type) == top_type \in {"sql_query", "report"}

\* `if top_type == "sql_query"`: the second classification call is needed
NeedsSubRoute(top_type) == top_type = "sql_query"

\* first classification: what route_and_process does with the outcome of the
\* blocking call; do is "return", "raise", "sub" (second call) or "dispatch"
RouteTop(out) ==
  IF out.exc # NoStr
  THEN [do |-> "return", val |-> MsgServiceSlow(out.exc), top |-> "None"]
  ELSE
    LET route_text == CleanJsonResponse(out.text)
        parsed == JsonLoads(route_text)
        route_result == parsed.value
        top_type == Get(route_result, "type")
    IN IF ~parsed.ok
       THEN [do |-> "return", val |-> MsgRouteNotJson(route_text), top |-> "None"]
       ELSE IF route_result.kind # "object"
       THEN [do |-> "raise", val |-> AttributeError, top |-> "None"]
       ELSE IF Falsy(top_type)
       THEN [do |-> "return", val |-> MsgMissingType, top |-> "None"]
       ELSE IF NeedsSubRoute(top_type)
       THEN [do |-> "sub", val |-> NoStr, top |-> top_type]
       ELSE IF Dispatch(top_type, "None") # "none"
       THEN [do |-> "dispatch", val |-> NoStr, top |-> top_type]
       ELSE [do |-> "return", val |-> MsgUnknownType(top_type), top |-> top_type]

\* second classification, made for sql_query only
RouteSub(out) ==
  IF out.exc # NoStr
  THEN [do |-> "return", val |-> MsgSubRouteFailed(out.exc), sub |-> "None"]
  ELSE
    LET sub_route_text == CleanJsonResponse(out.text)
        parsed == JsonLoads(sub_route_text)
        sub_route_result == parsed.value
        sub_type == Get(sub_route_result, "sub_type")
    IN IF ~parsed.ok
       THEN [do |-> "return", val |-> MsgSubRouteNotJson(sub_route_text), sub |-> "None"]
       ELSE IF sub_route_result.kind # "object"
       THEN [do |-> "raise", val |-> AttributeError, sub |-> "None"]
       ELSE IF Falsy(sub_type)
       THEN [do |-> "return", val |-> MsgMissingSubType, sub |-> "None"]
       ELSE IF Dispatch("sql_query", sub_type) # "none"
       THEN [do |-> "dispatch", val |-> NoStr, sub |-> sub_type]
       ELSE [do |-> "return", val |-> MsgUnknownSubType(sub_type), sub |-> sub_type]


\* ---------------------------------------------------------------- gateway
\* what the answering model may stream for a free-text answer
AnswerTexts == {Txt(<<"txt">>)}

\* outcome of llm.stream: the text of the fragments received, and the exception
\* that ended the stream (NoStr when it ended normally); a stream may be empty
StreamOutcomes(texts) ==
  {[text |-> t, exc |-> NoStr] : t \in texts \cup {EmptyStr}}
  \cup {[text |-> Txt(<<"txt">>), exc |-> e] : e \in ExcMsgs}

\* a classification that tests for "connection" before "timeout"
HandleStreamingConnFirst(o, error_prefix) ==
  IF o.exc = NoStr THEN o.text
  ELSE IF ContainsLower(o.exc, "connection")
  THEN Txt(<<"connect_service_failed">>)
  ELSE IF ContainsLower(o.exc, "timeout")
  THEN Txt(<<error_prefix, "TIMEOUT_ZH", "retry_later">>)
  ELSE Cat(Txt(<<error_prefix, "FAIL">>), o.exc)

\* DBChatBot._handle_streaming(messages, error_prefix)
HandleStreaming(o, error_prefix) ==
  IF o.exc = NoStr THEN o.text
  ELSE IF ContainsLower(o.exc, "timeout")
  THEN Txt(<<error_prefix, "TIMEOUT_ZH", "retry_later">>)
  ELSE IF ContainsLower(o.exc, "connection")
  THEN Txt(<<"connect_service_failed">>)
  ELSE Cat(Txt(<<error_prefix, "FAIL">>), o.exc)

\* ---------------------------------------------------------------- database
\* what db.run may return: "" or "[]" for no rows (the library version decides
\* which), or the repr of a non-empty row list
DbTexts == {EmptyStr, Txt(<<"[]">>), Txt(<<"ROWS">>)}

\* outcome of db.run: it raises or returns a text
DbOutcomes ==
  {[exc |-> NoStr, text |-> t] : t \in DbTexts}
  \cup {[exc |-> SomeExc, text |-> EmptyStr]}

\* db.run inside the loop of handle_report: the loop treats every parsable
\* result alike, empty or not, so one parsable text stands for both
ReportDbOutcomes == {o \in DbOutcomes : o.text # Txt(<<"[]">>)}

\* run_query(db, query): "查询执行错误: {e}" when db.run raises
RunQuery(dbo) ==
  IF dbo.exc = NoStr THEN dbo.text
  ELSE Cat(Txt(<<"query_exec", "ERROR">>), dbo.exc)

\* ast.literal_eval on a query result: [ok, empty]
LiteralEval(s) ==
  IF s.toks = <<"ROWS">> THEN [ok |-> TRUE, empty |-> FALSE]
  ELSE IF s.toks = <<"[]">> THEN [ok |-> TRUE, empty |-> TRUE]
  ELSE [ok |-> FALSE, empty |-> FALSE]

\* how the metadata queries of get_partial_schema may go
SchemaBehaviours == {"tables_raise", "tables_not_list", "ok"}

\* get_partial_schema(db, max_tables, max_columns)
GetPartialSchema(b) ==
  CASE b = "tables_raise" -> Cat(Txt(<<"get_partial_schema", "FAIL">>), SomeExc)
    [] b = "tables_not_list" -> Txt(<<"table_info_format", "ERROR", "type">>)
    [] b = "ok" -> Txt(<<"schema_header", "tables">>)

\* "获取数据库结构失败：{partial_schema}"
MsgSchemaFailed(ps) == Cat(Txt(<<"get_schema_failed">>), ps)


\* ---------------------------------------------------------------- sql_data
\* what the model may stream for the SQL statement: bare, fenced, or a
\* statement whose text holds the substring 超时
SqlTexts ==
  {Txt(<<"sql">>), Txt(FenceSql \o <<"NL", "sql", "NL">> \o Fence),
   Txt(<<"sql", "TIMEOUT_ZH">>)}

\* ---------------------------------------------------------------- report
\* an entry of outline["queries"] is the set of keys it has
PlainQuery == {"name", "sql"}
VisQuery == {"name", "sql", "visualization"}
NoNameQuery == {"sql"}
NoSqlQuery == {"name"}
EntryKinds == {PlainQuery, VisQuery, NoNameQuery, NoSqlQuery}

QuerySeqs == UNION {[1..n -> EntryKinds] : n \in 0..MaxQueries}

OutlineRequired == <<"title", "sections", "queries">>

\* a JSON object outline with the keys has and the list queries
OutlineObj(has, queries, iterable) ==
  [kind |-> "object", marks |-> {}, has |-> has, queries |-> queries,
   iterable |-> iterable]

OutlineValues ==
  {OutlineObj({"title", "sections", "queries"}, qs, TRUE) : qs \in QuerySeqs}
  \cup {OutlineObj(h, <<>>, TRUE) :
          h \in {{"sections", "queries"}, {"title", "queries"}, {"title", "sections"}, {}}}
  \cup {OutlineObj({"title", "sections", "queries"}, <<>>, FALSE), NumberVal, ArrayVal}

\* what the model may stream for the outline
OutlineTexts ==
  {Plain(v) : v \in OutlineValues}
  \cup {Fenced(OutlineObj({"title", "sections", "queries"}, <<>>, TRUE)), Garbage}

\* a validation that names the last required key the outline lacks
LastMissing(outline) ==
  LET has == IF outline.kind = "object" THEN outline.has ELSE {}
      miss == SelectSeq(OutlineRequired, LAMBDA f : f \notin has)
  IN IF miss = <<>> THEN "None" ELSE miss[Len(miss)]

\* the first required key the outline lacks, "None" when it has them all
\* (a list has none of them: `field not in outline` tests its elements)
FirstMissing(outline) ==
  LET has == IF outline.kind = "object" THEN outline.has ELSE {}
      miss == SelectSeq(OutlineRequired, LAMBDA f : f \notin has)
  IN IF miss = <<>> THEN "None" ELSE Head(miss)

\* "生成的报告大纲格式无效: {e}\n原始响应: {outline_response}"
MsgOutlineInvalid(resp) ==
  Cat(Txt(<<"outline_format_invalid", "decode_error", "NL", "raw_response">>), resp)
\* "报告大纲验证失败: 大纲缺少必要字段: {field}"
MsgOutlineValidation(field) ==
  Txt(<<"outline_validation_failed", "outline_missing_field", field>>)
\* "处理报告大纲时出错: {e}"
MsgOutlineProcessing == Txt(<<"outline_processing", "FAIL", "not_iterable">>)
\* "生成报告时出错: {e}", e being generate_report's "生成报告时出错: {cause}"
MsgReportFailed(e) ==
  Cat(Txt(<<"generate_report", "FAIL", "generate_report", "FAIL">>), e)
\* TypeError: 'NoneType' object is not iterable; KeyError: 'name'
TypeErrorNotIterable == Txt(<<"not_iterable">>)
KeyErrorName == Txt(<<"key_error_name">>)

\* json.dumps({"type": "report", "data": {format, path, title}})
ReportEnvelope(report_info, title) ==
  Plain([kind |-> "envelope", marks |-> {}, type |-> "report",
         format |-> report_info.format, path |-> report_info.path, title |-> title])

\* outcome of ReportGenerator.generate_report: it raises or returns {format, path}
AssembleOutcomes ==
  {[exc |-> NoStr, format |-> "markdown", path |-> "report_file"],
   [exc |-> SomeExc, format |-> "None", path |-> "None"]}

\* what generate_report handed back: format and path
ReportInfo(a) == IF a.exc # NoStr THEN NoStr ELSE Txt(<<a.format, a.path>>)

\* a handler that returns an envelope whether or not generate_report raised
ReportResultNoCatch(a, title) == ReportEnvelope(a, title)

\* handle_report stage 4 after generate_report: what the handler returns
ReportResult(a, title) ==
  IF a.exc = NoStr THEN ReportEnvelope(a, title) ELSE MsgReportFailed(a.exc)

\* the name of the i-th entry of outline["queries"]
QName(i) == <<"q1", "q2", "q3", "q4", "q5", "q6">>[i]

\* a loop body that appends to charts_data before the result is parsed
QueryStepChartFirst(entry, dbo) ==
  LET data == RunQuery(dbo)
      le == LiteralEval(data)
      named == "name" \in entry
  IN IF "sql" \notin entry
     THEN [ran |-> FALSE, data |-> NoStr, chart |-> FALSE, result |-> FALSE,
           raised |-> IF named THEN NoStr ELSE KeyErrorName]
     ELSE [ran |-> TRUE, data |-> data, chart |-> "visualization" \in entry,
           result |-> le.ok /\ named,
           raised |-> IF named THEN NoStr ELSE KeyErrorName]

\* one pass of the loop body of handle_report on entry, db.run going as dbo:
\* ran (run_query called), data, chart (appended to charts_data), result (appended
\* to query_results), raised (the exception that leaves handle_report, or NoStr)
QueryStep(entry, dbo) ==
  LET handler == IF "name" \in entry THEN NoStr ELSE KeyErrorName
  IN IF "sql" \notin entry
     THEN [ran |-> FALSE, data |-> NoStr, chart |-> FALSE, result |-> FALSE,
           raised |-> handler]
     ELSE
       LET data == RunQuery(dbo)
           le == LiteralEval(data)
       IN IF ~le.ok
          THEN [ran |-> TRUE, data |-> data, chart |-> FALSE, result |-> FALSE,
                raised |-> handler]
          ELSE IF "name" \notin entry
          THEN [ran |-> TRUE, data |-> data, chart |-> "visualization" \in entry,
                result |-> FALSE, raised |-> KeyErrorName]
          ELSE [ran |-> TRUE, data |-> data, chart |-> "visualization" \in entry,
                result |-> TRUE, raised |-> NoStr]

\* ---------------------------------------------------------------- visualization
RequiredFields == <<"chart_type", "sql", "title", "x_label", "y_label", "description">>
AllFields == {RequiredFields[i] : i \in 1..Len(RequiredFields)}
ValidChartTypes == {"bar", "line", "pie", "scatter"}

\* a JSON object config: the keys it has, its chart_type, and the substrings
\* (超时, 错误) that occur in its string values
ConfigObj(has, chart_type, marks) ==
  [kind |-> "object", marks |-> marks, has |-> has, chart_type |-> chart_type]

ConfigValues ==
  {ConfigObj(AllFields, t, {}) : t \in ValidChartTypes \cup {"donut"}}
  \cup {ConfigObj(AllFields \ m, "bar", {}) :
          m \in {{"y_label"}, {"x_label", "y_label"}, {"chart_type"}}}
  \cup {ConfigObj(AllFields, "bar", {"TIMEOUT_ZH"}),
        ConfigObj(AllFields \ {"y_label"}, "bar", {"TIMEOUT_ZH"}),
        ConfigObj(AllFields, "donut", {"ERROR"}),
        NumberVal}

\* what the model may stream for the chart config
ConfigTexts ==
  {Plain(v) : v \in ConfigValues}
  \cup {Fenced(ConfigObj(AllFields, "bar", {})), Garbage}

\* [field for field in required_fields if field not in config]
MissingFields(config) == SelectSeq(RequiredFields, LAMBDA f : f \notin config.has)

\* "生成的图表配置格式无效: {e}"
MsgConfigInvalid == Txt(<<"chart_config_format_invalid", "decode_error">>)
\* "图表配置缺少必要字段: {', '.join(missing_fields)}"
MsgConfigMissing(missing) == Cat(Txt(<<"chart_config_missing_fields">>), Txt(missing))
\* "不支持的图表类型: {config['chart_type']}"
MsgChartType(t) == Txt(<<"unsupported_chart_type", t>>)
\* "处理图表配置时出错: {e}"
MsgConfigProcessing == Txt(<<"chart_config_processing", "FAIL", "not_iterable">>)
\* "查询数据时出错: {data}"
MsgQueryData(data) == Cat(Txt(<<"query_data", "FAIL">>), data)
\* "解析查询结果失败: {e}"
MsgParseResult == Txt(<<"parse_result_failed", "syntax_error">>)
\* "查询结果为空，无法生成图表"
MsgNoData == Txt(<<"result_empty_no_chart">>)
\* "生成图表时出错: {e}", e being generate_chart's "生成图表时出错: {cause}"
MsgChartFailed(e) == Cat(Txt(<<"generate_chart", "FAIL", "generate_chart", "FAIL">>), e)
\* "静态图表文件生成失败" / "交互式图表文件生成失败"
MsgStaticMissing == Txt(<<"static_chart_file_failed">>)
MsgInteractiveMissing == Txt(<<"interactive_chart_file_failed">>)

\* json.dumps({"type": "visualization", "data": {...}})
VisualizationEnvelope ==
  Plain([kind |-> "envelope", marks |-> {}, type |-> "visualization",
         format |-> "None", path |-> "static_path", title |-> "title"])

\* outcome of ChartGenerator.generate_chart: it raises, or returns two paths
\* whose files exist or not
RenderOutcomes ==
  {[exc |-> NoStr, static |-> s, interactive |-> i] : s, i \in BOOLEAN}
  \cup {[exc |-> SomeExc, static |-> FALSE, interactive |-> FALSE]}

\* what generate_chart handed back, as the files found by os.path.exists
RenderFiles(r) ==
  IF r.exc # NoStr THEN NoStr
  ELSE Txt(<<IF r.static THEN "static_exists" ELSE "static_missing",
             IF r.interactive THEN "interactive_exists" ELSE "interactive_missing">>)

\* a handler that declares success once the static file exists
ChartResultStaticOnly(r) ==
  IF r.exc # NoStr THEN MsgChartFailed(r.exc)
  ELSE IF ~r.static THEN MsgStaticMissing
  ELSE VisualizationEnvelope

\* handle_visualization after generate_chart: what the handler returns
ChartResult(r) ==
  IF r.exc # NoStr THEN MsgChartFailed(r.exc)
  ELSE IF ~r.static THEN MsgStaticMissing
  ELSE IF ~r.interactive THEN MsgInteractiveMissing
  ELSE VisualizationEnvelope

\* validation of the streamed config (handle_visualization, after the stream):
\* [ok, val]: the validated config, or the string the handler returns
ValidateConfig(config_response) ==
  IF Contains(config_response, "ERROR") \/ Contains(config_response, "TIMEOUT_ZH")
  THEN [ok |-> FALSE, val |-> config_response, config |-> NoJson]
  ELSE
    LET parsed == JsonLoads(Strip(config_response))
        config == parsed.value
    IN IF ~parsed.ok
       THEN [ok |-> FALSE, val |-> MsgConfigInvalid, config |-> NoJson]
       ELSE IF config.kind = "number"
       THEN [ok |-> FALSE, val |-> MsgConfigProcessing, config |-> NoJson]
       ELSE IF MissingFields(config) # <<>>
       THEN [ok |-> FALSE, val |-> MsgConfigMissing(MissingFields(config)), config |-> NoJson]
       ELSE IF config.chart_type \notin ValidChartTypes
       THEN [ok |-> FALSE, val |-> MsgChartType(config.chart_type), config |-> NoJson]
       ELSE [ok |-> TRUE, val |-> NoStr, config |-> config]


\* ---------------------------------------------------------------- the functions alone
\* rows a metadata query can match: tables of the database, columns of a table
MaxRows == 3
\* largest max_tables and max_columns passed to get_partial_schema
MaxLimit == 2
\* chunks a stream delivers at most
MaxFrags == 2
\* length, in tokens, of a classification answer handed to _clean_json_response
MaxText == 4
\* the largest value, in seconds, int(time.time()) takes
MaxTime == 2
\* lines the user types at the command-line prompt
MaxInputs == 3

Min(a, b) == IF a < b THEN a ELSE b

\* a database as the metadata queries see it: its number of tables, the columns
\* and foreign keys of each table, the text db.run returns for an empty result
\* ("" or "[]"), and the db.run call (0: none) that goes wrong and how: it
\* raises, returns unparsable text, or returns text that parses to no list
Databases ==
  {d \in [tables : 0..MaxRows, columns : 0..MaxRows, fks : {0, 1},
          empty : {"blank", "brackets"}, faultAt : 0..(2 * MaxLimit + 1),
          fault : {"raise", "garbage", "scalar"}] :
     d.faultAt = 0 => d.fault = "raise"}

\* the k-th db.run of a function, its statement matching rows rows
DbRun(db, k, rows) ==
  IF db.faultAt = k /\ db.fault = "raise"
  THEN [exc |-> SomeExc, kind |-> "none", n |-> 0]
  ELSE IF db.faultAt = k THEN [exc |-> NoStr, kind |-> db.fault, n |-> 0]
  ELSE IF rows = 0 THEN [exc |-> NoStr, kind |-> db.empty, n |-> 0]
  ELSE [exc |-> NoStr, kind |-> "rows", n |-> rows]

\* ast.literal_eval accepts the text ("" and garbage raise)
Parses(r) == r.kind \in {"rows", "brackets", "scalar"}

SyntaxError == Txt(<<"syntax_error">>)

\* the loop body of get_partial_schema over the tables still to describe: c is
\* the number of db.run calls made, toks the schema_info gathered
RECURSIVE DescribeTables(_, _, _, _, _)
DescribeTables(db, max_columns, left, c, toks) ==
  IF left = 0 THEN [exc |-> NoStr, toks |-> toks, ncalls |-> c]
  ELSE
    LET columns_info == DbRun(db, c + 1, Min(db.columns, max_columns))
    IN IF columns_info.exc # NoStr
       THEN [exc |-> columns_info.exc, toks |-> toks, ncalls |-> c + 1]
       ELSE IF ~Parses(columns_info)
       THEN DescribeTables(db, max_columns, left - 1, c + 1, toks)
       ELSE IF columns_info.kind = "brackets"
       THEN DescribeTables(db, max_columns, left - 1, c + 1,
                           toks \o <<"table_name", "table_desc", "no_column_info">>)
       ELSE IF columns_info.kind = "scalar"
       THEN [exc |-> TypeErrorNotIterable, toks |-> toks, ncalls |-> c + 1]
       ELSE
         LET described == toks \o <<"table_name", "table_desc", "important_fields">>
                               \o [i \in 1..columns_info.n |-> "col"]
             fk_info == DbRun(db, c + 2, db.fks)
         IN IF fk_info.exc # NoStr
            THEN [exc |-> fk_info.exc, toks |-> toks, ncalls |-> c + 2]
            ELSE IF ~Parses(fk_info)
            THEN DescribeTables(db, max_columns, left - 1, c + 2, described)
            ELSE IF fk_info.kind = "scalar"
            THEN [exc |-> TypeErrorNotIterable, toks |-> toks, ncalls |-> c + 2]
            ELSE DescribeTables(db, max_columns, left - 1, c + 2,
                   described
                   \o (IF fk_info.kind = "rows"
                       THEN <<"relations">> \o [i \in 1..fk_info.n |-> "fk"]
                       ELSE <<>>)
                   \o <<"separator">>)

\* get_partial_schema inside its try: the string returned, or the exception
PartialSchemaBody(db, max_tables, max_columns) ==
  LET tables_info == DbRun(db, 1, Min(db.tables, max_tables))
  IN IF tables_info.exc # NoStr
     THEN [exc |-> tables_info.exc, value |-> NoStr, ncalls |-> 1]
     ELSE IF tables_info.kind = "blank"
     THEN [exc |-> NoStr, value |-> Txt(<<"no_tables_found">>), ncalls |-> 1]
     ELSE IF ~Parses(tables_info)
     THEN [exc |-> NoStr, value |-> Txt(<<"parse_table_info_failed", "syntax_error">>),
           ncalls |-> 1]
     ELSE IF tables_info.kind = "scalar"
     THEN [exc |-> NoStr, value |-> Txt(<<"table_info_format", "ERROR", "type">>),
           ncalls |-> 1]
     ELSE LET d == DescribeTables(db, max_columns, tables_info.n, 1, <<"schema_header">>)
          IN [exc |-> d.exc, value |-> Txt(d.toks), ncalls |-> d.ncalls]

\* a get_partial_schema without its except clause
PartialSchemaNoCatch(b) == [raised |-> b.exc, value |-> b.value, ncalls |-> b.ncalls]

\* get_partial_schema, `except Exception as e`
PartialSchemaCatch(b) ==
  IF b.exc # NoStr
  THEN [raised |-> NoStr, value |-> Cat(Txt(<<"get_partial_schema", "FAIL">>), b.exc),
        ncalls |-> b.ncalls]
  ELSE [raised |-> NoStr, value |-> b.value, ncalls |-> b.ncalls]

\* get_partial_schema(db, max_tables, max_columns)
get_partial_schema(db, max_tables, max_columns) ==
  PartialSchemaCatch(PartialSchemaBody(db, max_tables, max_columns))

\* get_schema inside its try
SchemaBody(db) ==
  LET tables_info == DbRun(db, 1, db.tables)
      columns_info == DbRun(db, 2, db.tables * db.columns)
      fk_info == DbRun(db, 3, db.tables * db.fks)
  IN IF tables_info.exc # NoStr
     THEN [exc |-> tables_info.exc, value |-> NoStr, ncalls |-> 1]
     ELSE IF columns_info.exc # NoStr
     THEN [exc |-> columns_info.exc, value |-> NoStr, ncalls |-> 2]
     ELSE IF fk_info.exc # NoStr
     THEN [exc |-> fk_info.exc, value |-> NoStr, ncalls |-> 3]
     ELSE IF ~Parses(tables_info) THEN [exc |-> SyntaxError, value |-> NoStr, ncalls |-> 3]
     ELSE IF tables_info.kind = "scalar"
     THEN [exc |-> TypeErrorNotIterable, value |-> NoStr, ncalls |-> 3]
     ELSE IF ~Parses(columns_info) THEN [exc |-> SyntaxError, value |-> NoStr, ncalls |-> 3]
     ELSE IF columns_info.kind = "scalar"
     THEN [exc |-> TypeErrorNotIterable, value |-> NoStr, ncalls |-> 3]
     ELSE IF ~Parses(fk_info) THEN [exc |-> SyntaxError, value |-> NoStr, ncalls |-> 3]
     ELSE IF fk_info.kind = "scalar"
     THEN [exc |-> TypeErrorNotIterable, value |-> NoStr, ncalls |-> 3]
     ELSE [exc |-> NoStr,
           value |-> Txt(<<"full_schema_header">> \o [i \in 1..tables_info.n |-> "table_name"]),
           ncalls |-> 3]

\* get_schema(db)
get_schema(db) ==
  LET b == SchemaBody(db)
  IN IF b.exc # NoStr
     THEN [raised |-> NoStr, value |-> Cat(Txt(<<"get_schema", "FAIL">>), b.exc),
           ncalls |-> b.ncalls]
     ELSE [raised |-> NoStr, value |-> b.value, ncalls |-> b.ncalls]

\* outcome of db.run for run_query, with every kind of message
QueryOutcomes ==
  {[exc |-> NoStr, text |-> t] : t \in DbTexts}
  \cup {[exc |-> e, text |-> EmptyStr] : e \in ExcMsgs}

\* run_query(db, query)
run_query(dbo) == [raised |-> NoStr, value |-> RunQuery(dbo), ncalls |-> 1]

\* messages of the exceptions llm.stream may raise, in both spellings and with
\* both substrings
StreamExcMsgs ==
  ExcMsgs \cup {Txt(<<"Connection", "timeout">>), Txt(<<"timeout", "connection">>),
                Txt(<<"Connection">>)}

\* a stream: the content of its chunks ("EMPTY": a chunk without content) and
\* the exception that ends it
Streams ==
  {[frags |-> f, exc |-> e] :
     f \in UNION {[1..n -> {"txt", "EMPTY"}] : n \in 0..MaxFrags},
     e \in {NoStr} \cup StreamExcMsgs}

\* full_response after the loop over the chunks
Accumulate(frags) == Txt(SelectSeq(frags, LAMBDA c : c # "EMPTY"))

\* _handle_streaming(messages, error_prefix) on a stream
handle_streaming(stream, error_prefix) ==
  [raised |-> NoStr,
   value |-> HandleStreaming([text |-> Accumulate(stream.frags), exc |-> stream.exc],
                             error_prefix),
   ncalls |-> 1]

\* the tokens a classification answer is made of: a backquote, the word json,
\* line feed, carriage return, a JSON body
AnswerTokens == {"BT", "json", "NL", "CR", "JSON"}

\* the answers of the classification model, as texts
RouterAnswers ==
  {Txt(t) : t \in UNION {[1..n -> AnswerTokens] : n \in 0..MaxText}}

\* _clean_json_response(response)
clean_json_response(response) ==
  [raised |-> NoStr, value |-> CleanJsonResponse(response), ncalls |-> 0]

\* ---------------------------------------------------------------- chart files
\* ChartGenerator.__init__(output_dir="charts"): the generator of DBChatBot and
\* the one of ReportGenerator, of every session, write to the same directory
OutputDir == "charts"

\* _generate_static_chart: os.path.join(output_dir, f"static_{int(time.time())}.png")
generate_static_chart(now) == <<OutputDir, "static", now, "png">>

\* _generate_interactive_chart:
\* os.path.join(output_dir, f"interactive_{int(time.time())}.html")
generate_interactive_chart(now) == <<OutputDir, "interactive", now, "html">>

\* generate_chart(data, config), the clock reading t_static when the static
\* file is named and t_interactive when the interactive one is; a chart type
\* that is not supported raises before any file is written
generate_chart(chart) ==
  IF chart.supported
  THEN [raised |-> FALSE,
        static_path |-> generate_static_chart(chart.t_static),
        interactive_path |-> generate_interactive_chart(chart.t_interactive)]
  ELSE [raised |-> TRUE, static_path |-> <<>>, interactive_path |-> <<>>]

\* the generate_chart calls of one process in the order they are made (the
\* work-list of a report, or the requests of several sessions), each with the
\* clock readings it gets; the clock never goes back
ChartCalls ==
  {c \in UNION {[1..n -> [supported : BOOLEAN, t_static : 0..MaxTime,
                          t_interactive : 0..MaxTime]] : n \in 1..MaxQueries} :
     /\ \A i \in 1..Len(c) : c[i].t_static <= c[i].t_interactive
     /\ \A i \in 1..(Len(c) - 1) : c[i].t_interactive <= c[i + 1].t_static}

\* _generate_chart_sections(charts_data): generate_chart on every entry in
\* order, a failed chart replaced by an error section
generate_chart_sections(charts) ==
  [raised |-> NoStr,
   value |-> [i \in 1..Len(charts) |-> generate_chart(charts[i])],
   ncalls |-> Len(charts)]


\* ---------------------------------------------------------------- state
VARIABLES
  api_type,        \* st.session_state["api_type"]
  chatbot,         \* st.session_state["chatbot"]: "None" or the instance
  api_connected,   \* st.session_state["api_connected"]
  api_error,       \* st.session_state["api_error"]: "absent" when the key is not set
  history,         \* st.session_state["history"]: sequence of <<question, answer>>
  processing,      \* st.session_state["processing"]
  pc,              \* where the script run / the request stands
  nReq,            \* exchanges submitted so far
  question,        \* the prompt of the request in flight
  startHist,       \* the history when the request was submitted
  top_type,        \* route_result.get("type")
  sub_type,        \* sub_route_result.get("sub_type")
  calls,           \* the calls the request made so far, in order
  sql_cleaned,     \* handle_sql_data: the statement handed to run_query
  outline,         \* handle_report: the validated outline
  qi,              \* handle_report: index of the next entry of outline["queries"]
  query_results,   \* handle_report: indices of the entries in query_results
  charts_data,     \* handle_report: indices of the entries in charts_data
  content_response,\* handle_report: the streamed report body
  config,          \* handle_visualization: the validated config
  hret,            \* what the handler returned
  ret,             \* what route_and_process returned
  exc,             \* the exception that left route_and_process
  uiExc,           \* the exception that left chat() and reached the UI
  response,        \* what chat() returned to the UI
  fn,              \* the function called alone, "none" within a session
  args,            \* its arguments
  result,          \* what it returned or raised, NoStr before the call
  runs,            \* the script runs handling a submission: where each stands
  cli_pc,          \* chat_with_db.main: where it stands ("none": it does not run)
  attempt,         \* its loop variable attempt
  attempts,        \* whether each DBChatBot() call made so far returned
  cli_chatbot,     \* its local chatbot, "None" while unbound
  user_input,      \* its local user_input
  cli_history,     \* its local history
  prompted         \* how often it has prompted for a question

uiVars == <<api_type, chatbot, api_connected, api_error>>
routeVars == <<top_type, sub_type>>
localVars == <<sql_cleaned, outline, qi, query_results, charts_data, content_response, config>>
outVars == <<hret, ret, exc, uiExc, response>>
sessionVars == <<api_type, chatbot, api_connected, api_error, history, processing, pc,
                 nReq, question, startHist, top_type, sub_type, calls, sql_cleaned,
                 outline, qi, query_results, charts_data, content_response, config,
                 hret, ret, exc, uiExc, response>>
unitVars == <<fn, args, result>>
requestVars == <<pc, nReq, question, startHist, routeVars, calls, localVars, outVars>>
cliVars == <<cli_pc, attempt, attempts, cli_chatbot, user_input, cli_history, prompted>>
vars == <<sessionVars, unitVars, runs, cliVars>>

\* one call of the request: op is "invoke" (blocking classification call),
\* "handler", "schema", "stream", "sql", "render" or "assemble"; arg is what it
\* was called with, out what it returned, err the exception it raised
Ev(op, arg, out, err) == [op |-> op, arg |-> arg, out |-> out, err |-> err]

\* DBChatBot(api_type=...)
Bot(api) == IF api = "openai" THEN "DBChatBot_openai" ELSE "DBChatBot_deepseek"

\* the state after initialize_session_state: the constructor succeeded or raised
SessionInit ==
  /\ api_type = "deepseek"
  /\ \E constructed \in BOOLEAN :
       /\ chatbot = IF constructed THEN Bot("deepseek") ELSE "None"
       /\ api_connected = constructed
       /\ api_error = IF constructed THEN "absent" ELSE "init_failed"
  /\ history = <<>>
  /\ processing = FALSE
  /\ pc = "idle"
  /\ nReq = 0
  /\ question = "None"
  /\ startHist = <<>>
  /\ top_type = "None"
  /\ sub_type = "None"
  /\ calls = <<>>
  /\ sql_cleaned = NoStr
  /\ outline = NoJson
  /\ qi = 0
  /\ query_results = <<>>
  /\ charts_data = <<>>
  /\ content_response = NoStr
  /\ config = NoJson
  /\ hret = NoStr
  /\ ret = NoStr
  /\ exc = NoStr
  /\ uiExc = NoStr
  /\ response = NoStr

\* the script runs that carry a prompt
Runs == 1..MaxRuns

\* a script run: at is where it stands ("none": it does not exist), prompt the
\* text submitted, response what chat() returned to it, detached whether
\* session_state["history"] was rebound to a new list while its chat() call ran
Run(at, prompt, resp, detached) ==
  [at |-> at, prompt |-> prompt, response |-> resp, detached |-> detached]

NoRuns == [r \in Runs |-> Run("none", "None", NoStr, FALSE)]

\* the command-line entry point does not run
CliNone ==
  /\ cli_pc = "none"
  /\ attempt = 0
  /\ attempts = <<>>
  /\ cli_chatbot = "None"
  /\ user_input = "None"
  /\ cli_history = <<>>
  /\ prompted = 0

\* a session: no function is called alone
Init ==
  /\ SessionInit
  /\ fn = "none"
  /\ args = NoStr
  /\ result = NoStr
  /\ runs = NoRuns
  /\ CliNone

\* ---------------------------------------------------------------- how a step ends
\* route_and_process returns v itself (a routing failure)
Return(v) ==
  /\ ret' = v
  /\ pc' = "chat_ret"
  /\ UNCHANGED <<hret, exc, uiExc, response>>

\* `return self.handle_x(inputs)`: the value route_and_process hands on
RouteResult(v) == v

\* the handler returns v, and route_and_process returns the handler's value
HandlerReturn(v) ==
  /\ hret' = v
  /\ ret' = RouteResult(v)
  /\ pc' = "chat_ret"
  /\ UNCHANGED <<exc, uiExc, response>>

\* an exception leaves route_and_process
Raise(e) ==
  /\ exc' = e
  /\ pc' = "chat_ret"
  /\ UNCHANGED <<hret, ret, uiExc, response>>

\* the request goes on at p
Goto(p) ==
  /\ pc' = p
  /\ UNCHANGED outVars

Called(h) == Ev("handler", Txt(<<h>>), NoStr, NoStr)


\* ---------------------------------------------------------------- the UI
\* app.py main, the chat input: a prompt is submitted; with the processing flag
\* clear the run sets it and calls chatbot.chat(prompt, history), which formats
\* the history and enters route_and_process
Submit(q) ==
  /\ pc \in {"idle", "done"}
  /\ api_connected
  /\ ~processing
  /\ nReq < MaxReq
  /\ processing' = TRUE
  /\ nReq' = nReq + 1
  /\ question' = q
  /\ startHist' = history
  /\ top_type' = "None"
  /\ sub_type' = "None"
  /\ calls' = <<>>
  /\ sql_cleaned' = NoStr
  /\ outline' = NoJson
  /\ qi' = 0
  /\ query_results' = <<>>
  /\ charts_data' = <<>>
  /\ content_response' = NoStr
  /\ config' = NoJson
  /\ hret' = NoStr
  /\ ret' = NoStr
  /\ response' = NoStr
  /\ exc' = NoStr
  /\ IF chatbot = "None"
     THEN uiExc' = AttributeError /\ pc' = "ui_except"
     ELSE uiExc' = NoStr /\ pc' = "route1"
  /\ UNCHANGED <<uiVars, history>>
  /\ UNCHANGED <<unitVars, runs, cliVars>>

\* a classification made with the incremental gateway call
ClassifyEvStreaming(prompt, out) == Ev("stream", Txt(<<prompt>>), out.text, out.exc)

\* non_streaming_llm.invoke(prompt.format_messages(question=...)): the blocking
\* gateway call of a classification
ClassifyEv(prompt, out) == Ev("invoke", Txt(<<prompt>>), out.text, out.exc)

\* route_and_process, first classification call and what follows it up to the
\* second call, the dispatch or the return
Route1 ==
  /\ pc = "route1"
  /\ \E out \in InvokeOutcomes(RouterTexts("type", TopTypes)) :
       LET r == RouteTop(out)
           ev == ClassifyEv("router_prompt", out)
       IN /\ top_type' = r.top
          /\ CASE r.do = "return" -> calls' = Append(calls, ev) /\ Return(r.val)
               [] r.do = "raise" -> calls' = Append(calls, ev) /\ Raise(r.val)
               [] r.do = "sub" -> calls' = Append(calls, ev) /\ Goto("route2")
               [] r.do = "dispatch" ->
                    /\ calls' = calls \o <<ev, Called(Dispatch(r.top, "None"))>>
                    /\ Goto(HandlerEntry(Dispatch(r.top, "None")))
  /\ UNCHANGED <<uiVars, history, processing, nReq, question, startHist, sub_type, localVars>>
  /\ UNCHANGED <<unitVars, runs, cliVars>>

\* route_and_process, second classification call (sql_query only) and the dispatch
Route2 ==
  /\ pc = "route2"
  /\ \E out \in InvokeOutcomes(RouterTexts("sub_type", SubTypes)) :
       LET r == RouteSub(out)
           ev == ClassifyEv("sql_router_prompt", out)
       IN /\ sub_type' = r.sub
          /\ CASE r.do = "return" -> calls' = Append(calls, ev) /\ Return(r.val)
               [] r.do = "raise" -> calls' = Append(calls, ev) /\ Raise(r.val)
               [] r.do = "dispatch" ->
                    /\ calls' = calls \o <<ev, Called(Dispatch(top_type, r.sub))>>
                    /\ Goto(HandlerEntry(Dispatch(top_type, r.sub)))
  /\ UNCHANGED <<uiVars, history, processing, nReq, question, startHist, top_type, localVars>>
  /\ UNCHANGED <<unitVars, runs, cliVars>>

\* a chat() without the except clause: the exception propagates
ChatNoCatch(e) == [raised |-> e, value |-> NoStr]

\* chat(), `except Exception as e`: the exception is caught and the apology
\* returned; raised is what still propagates to the caller
ChatCatch(e) == [raised |-> NoStr, value |-> MsgApology(e)]

\* chat(): try: result = route_and_process(...); history.append((question, result));
\* return result / except Exception as e: return the apology

ChatReturn ==
  /\ pc = "chat_ret"
  /\ IF exc = NoStr
     THEN /\ history' = Append(history, <<question, ret>>)
          /\ response' = ret
          /\ uiExc' = NoStr
          /\ pc' = "ui_post"
     ELSE /\ history' = history
          /\ response' = ChatCatch(exc).value
          /\ uiExc' = ChatCatch(exc).raised
          /\ pc' = IF ChatCatch(exc).raised = NoStr THEN "ui_post" ELSE "ui_except"
  /\ UNCHANGED <<uiVars, processing, nReq, question, startHist, routeVars, calls, localVars,
                 hret, ret, exc>>
  /\ UNCHANGED <<unitVars, runs, cliVars>>

\* the UI's failure test: response starts with 抱歉 or 错误
FailurePrefixed(r) == StartsWith(r, "SORRY") \/ StartsWith(r, "ERROR")

\* app.py main after chat() returned: the turn is appended unless the response is
\* failure-prefixed, the flag is cleared and st.rerun() restarts the script,
\* which then waits for input (pc "done")
UIPost ==
  /\ pc = "ui_post"
  /\ history' = IF ~FailurePrefixed(response)
                THEN Append(history, <<question, response>>)
                ELSE history
  /\ processing' = FALSE
  /\ pc' = "done"
  /\ UNCHANGED <<uiVars, nReq, question, startHist, routeVars, calls, localVars, outVars>>
  /\ UNCHANGED <<unitVars, runs, cliVars>>

\* app.py main, except Exception around the chat call: the error is shown, a
\* connection error marks the API as disconnected, the flag is cleared
UIExcept ==
  /\ pc = "ui_except"
  /\ IF ContainsLower(uiExc, "connection")
     THEN api_connected' = FALSE /\ api_error' = "connection_error"
     ELSE UNCHANGED <<api_connected, api_error>>
  /\ processing' = FALSE
  /\ pc' = "done"
  /\ UNCHANGED <<api_type, chatbot, history, nReq, question, startHist, routeVars, calls,
                 localVars, outVars>>
  /\ UNCHANGED <<unitVars, runs, cliVars>>



\* ---------------------------------------------------------------- handlers
reqFrame == <<uiVars, history, processing, nReq, question, startHist, routeVars>>

SchemaEv(ps) == Ev("schema", NoStr, ps, NoStr)
StreamEv(prefix, o) == Ev("stream", Txt(<<prefix>>), HandleStreaming(o, prefix), o.exc)
SqlEv(sql, dbo) == Ev("sql", sql, RunQuery(dbo), dbo.exc)

\* handle_db_structure: fetch the partial schema, reject it if it holds 错误
DsSchema ==
  /\ pc = "ds_schema"
  /\ \E b \in SchemaBehaviours :
       LET partial_schema == GetPartialSchema(b)
       IN /\ calls' = Append(calls, SchemaEv(partial_schema))
          /\ IF Contains(partial_schema, "ERROR")
             THEN HandlerReturn(MsgSchemaFailed(partial_schema))
             ELSE Goto("ds_stream")
  /\ UNCHANGED <<reqFrame, localVars>>
  /\ UNCHANGED <<unitVars, runs, cliVars>>

\* handle_db_structure: stream the explanation and return it
DsStream ==
  /\ pc = "ds_stream"
  /\ \E o \in StreamOutcomes(AnswerTexts) :
       /\ calls' = Append(calls, StreamEv("structure_analysis", o))
       /\ HandlerReturn(HandleStreaming(o, "structure_analysis"))
  /\ UNCHANGED <<reqFrame, localVars>>
  /\ UNCHANGED <<unitVars, runs, cliVars>>

\* handle_sql_data: fetch the partial schema (used as it is)
SdSchema ==
  /\ pc = "sd_schema"
  /\ \E b \in SchemaBehaviours :
       calls' = Append(calls, SchemaEv(GetPartialSchema(b)))
  /\ Goto("sd_generate")
  /\ UNCHANGED <<reqFrame, localVars>>
  /\ UNCHANGED <<unitVars, runs, cliVars>>

\* a stage-1 test that knows the failure marker only
SqlGenerationFailedNoTimeout(sql_response) == Contains(sql_response, "FAIL")

\* `if "出错" in sql_response or "超时" in sql_response`
SqlGenerationFailed(sql_response) ==
  Contains(sql_response, "FAIL") \/ Contains(sql_response, "TIMEOUT_ZH")

\* handle_sql_data stage 1: stream the SQL; return the text if it holds 出错 or
\* 超时, else clean it
SdGenerate ==
  /\ pc = "sd_generate"
  /\ \E o \in StreamOutcomes(SqlTexts) :
       LET sql_response == HandleStreaming(o, "sql_generation")
       IN /\ calls' = Append(calls, StreamEv("sql_generation", o))
          /\ IF SqlGenerationFailed(sql_response)
             THEN HandlerReturn(sql_response) /\ UNCHANGED sql_cleaned
             ELSE Goto("sd_execute") /\ sql_cleaned' = CleanSqlQuery(sql_response)
  /\ UNCHANGED <<reqFrame, outline, qi, query_results, charts_data, content_response, config>>
  /\ UNCHANGED <<unitVars, runs, cliVars>>

\* a stage 2 that returns an error when the statement yields no rows
SdExecuteRejectEmpty ==
  /\ pc = "sd_execute"
  /\ \E dbo \in DbOutcomes :
       /\ calls' = Append(calls, SqlEv(sql_cleaned, dbo))
       /\ IF dbo.exc = NoStr /\ dbo.text \in {EmptyStr, Txt(<<"[]">>)}
          THEN HandlerReturn(MsgNoData)
          ELSE Goto("sd_explain")
  /\ UNCHANGED <<reqFrame, localVars>>
  /\ UNCHANGED <<unitVars, runs, cliVars>>

\* a stage 2 that hands the error of a failed statement back as the result
SdExecuteReturnError ==
  /\ pc = "sd_execute"
  /\ \E dbo \in DbOutcomes :
       /\ calls' = Append(calls, SqlEv(sql_cleaned, dbo))
       /\ IF dbo.exc # NoStr
          THEN HandlerReturn(RunQuery(dbo))
          ELSE Goto("sd_explain")
  /\ UNCHANGED <<reqFrame, localVars>>
  /\ UNCHANGED <<unitVars, runs, cliVars>>

\* handle_sql_data stage 2: run_query(db, sql_cleaned)
SdExecute ==
  /\ pc = "sd_execute"
  /\ \E dbo \in DbOutcomes :
       calls' = Append(calls, SqlEv(sql_cleaned, dbo))
  /\ Goto("sd_explain")
  /\ UNCHANGED <<reqFrame, localVars>>
  /\ UNCHANGED <<unitVars, runs, cliVars>>

\* handle_sql_data stage 3: stream the explanation of the result and return it
SdExplain ==
  /\ pc = "sd_explain"
  /\ \E o \in StreamOutcomes(AnswerTexts) :
       /\ calls' = Append(calls, StreamEv("result_analysis", o))
       /\ HandlerReturn(HandleStreaming(o, "result_analysis"))
  /\ UNCHANGED <<reqFrame, localVars>>
  /\ UNCHANGED <<unitVars, runs, cliVars>>

\* handle_chat: one streamed answer
ChStream ==
  /\ pc = "ch_stream"
  /\ \E o \in StreamOutcomes(AnswerTexts) :
       /\ calls' = Append(calls, StreamEv("thinking", o))
       /\ HandlerReturn(HandleStreaming(o, "thinking"))
  /\ UNCHANGED <<reqFrame, localVars>>
  /\ UNCHANGED <<unitVars, runs, cliVars>>

\* handle_report: fetch the partial schema (used as it is)
RpSchema ==
  /\ pc = "rp_schema"
  /\ \E b \in SchemaBehaviours :
       calls' = Append(calls, SchemaEv(GetPartialSchema(b)))
  /\ Goto("rp_outline")
  /\ UNCHANGED <<reqFrame, localVars>>
  /\ UNCHANGED <<unitVars, runs, cliVars>>

\* handle_report stage 1: stream the outline, parse and validate it, and enter
\* the loop over outline["queries"]
RpOutline ==
  /\ pc = "rp_outline"
  /\ \E o \in StreamOutcomes(OutlineTexts) :
       LET outline_response == HandleStreaming(o, "outline_generation")
           parsed == JsonLoads(outline_response)
       IN /\ calls' = Append(calls, StreamEv("outline_generation", o))
          /\ IF ~parsed.ok
             THEN HandlerReturn(MsgOutlineInvalid(outline_response))
                  /\ UNCHANGED <<outline, qi>>
             ELSE IF parsed.value.kind = "number"
             THEN HandlerReturn(MsgOutlineProcessing) /\ UNCHANGED <<outline, qi>>
             ELSE IF FirstMissing(parsed.value) # "None"
             THEN HandlerReturn(MsgOutlineValidation(FirstMissing(parsed.value)))
                  /\ UNCHANGED <<outline, qi>>
             ELSE /\ outline' = parsed.value
                  /\ qi' = 1
                  /\ IF parsed.value.iterable
                     THEN Goto("rp_loop")
                     ELSE Raise(TypeErrorNotIterable)
  /\ UNCHANGED <<reqFrame, sql_cleaned, query_results, charts_data, content_response, config>>
  /\ UNCHANGED <<unitVars, runs, cliVars>>

\* a loop that may be left before its last entry
LoopDoneEarly(i, queries) == i > 1

\* `for query_info in outline["queries"]` is exhausted: i is the index of the
\* next entry
LoopDone(i, queries) == i > Len(queries)

\* handle_report stage 2, one entry of outline["queries"]
RpQuery ==
  /\ pc = "rp_loop"
  /\ qi <= Len(outline.queries)
  /\ \E dbo \in ReportDbOutcomes :
       LET entry == outline.queries[qi]
           st == QueryStep(entry, dbo)
       IN /\ calls' = IF st.ran
                      THEN Append(calls, SqlEv(Txt(<<"sql_of_query", QName(qi)>>), dbo))
                      ELSE calls
          /\ charts_data' = IF st.chart THEN Append(charts_data, qi) ELSE charts_data
          /\ query_results' = IF st.result THEN Append(query_results, qi) ELSE query_results
          /\ qi' = qi + 1
          /\ IF st.raised = NoStr THEN Goto("rp_loop") ELSE Raise(st.raised)
  /\ UNCHANGED <<reqFrame, sql_cleaned, outline, content_response, config>>
  /\ UNCHANGED <<unitVars, runs, cliVars>>

\* handle_report stage 3: stream the report body from the outline and query_results
RpContent ==
  /\ pc = "rp_loop"
  /\ LoopDone(qi, outline.queries)
  /\ \E o \in StreamOutcomes(AnswerTexts) :
       /\ calls' = Append(calls, StreamEv("content_generation", o))
       /\ content_response' = HandleStreaming(o, "content_generation")
  /\ Goto("rp_assemble")
  /\ UNCHANGED <<reqFrame, sql_cleaned, outline, qi, query_results, charts_data, config>>
  /\ UNCHANGED <<unitVars, runs, cliVars>>

\* handle_report stage 4: generate_report(title, content_response, charts_data)
RpAssemble ==
  /\ pc = "rp_assemble"
  /\ \E a \in AssembleOutcomes :
       /\ calls' = Append(calls, Ev("assemble", content_response, ReportInfo(a), a.exc))
       /\ HandlerReturn(ReportResult(a, "title"))
  /\ UNCHANGED <<reqFrame, localVars>>
  /\ UNCHANGED <<unitVars, runs, cliVars>>

\* handle_visualization: fetch the partial schema, reject it if it holds 错误
VzSchema ==
  /\ pc = "vz_schema"
  /\ \E b \in SchemaBehaviours :
       LET partial_schema == GetPartialSchema(b)
       IN /\ calls' = Append(calls, SchemaEv(partial_schema))
          /\ IF Contains(partial_schema, "ERROR")
             THEN HandlerReturn(MsgSchemaFailed(partial_schema))
             ELSE Goto("vz_config")
  /\ UNCHANGED <<reqFrame, localVars>>
  /\ UNCHANGED <<unitVars, runs, cliVars>>

\* handle_visualization: stream the chart config and validate it
VzConfig ==
  /\ pc = "vz_config"
  /\ \E o \in StreamOutcomes(ConfigTexts) :
       LET config_response == HandleStreaming(o, "chart_config_generation")
           v == ValidateConfig(config_response)
       IN /\ calls' = Append(calls, StreamEv("chart_config_generation", o))
          /\ IF v.ok
             THEN Goto("vz_query") /\ config' = v.config
             ELSE HandlerReturn(v.val) /\ UNCHANGED config
  /\ UNCHANGED <<reqFrame, sql_cleaned, outline, qi, query_results, charts_data, content_response>>
  /\ UNCHANGED <<unitVars, runs, cliVars>>

\* handle_visualization: run config["sql"] and read the result
VzQuery ==
  /\ pc = "vz_query"
  /\ \E dbo \in DbOutcomes :
       LET data == RunQuery(dbo)
           le == LiteralEval(data)
       IN /\ calls' = Append(calls, SqlEv(Txt(<<"config_sql">>), dbo))
          /\ IF Contains(data, "ERROR") THEN HandlerReturn(MsgQueryData(data))
             ELSE IF ~le.ok THEN HandlerReturn(MsgParseResult)
             ELSE IF le.empty THEN HandlerReturn(MsgNoData)
             ELSE Goto("vz_render")
  /\ UNCHANGED <<reqFrame, localVars>>
  /\ UNCHANGED <<unitVars, runs, cliVars>>

\* handle_visualization: generate_chart(data, config), check the two files
VzRender ==
  /\ pc = "vz_render"
  /\ \E r \in RenderOutcomes :
       /\ calls' = Append(calls, Ev("render", NoStr, RenderFiles(r), r.exc))
       /\ HandlerReturn(ChartResult(r))
  /\ UNCHANGED <<reqFrame, localVars>>
  /\ UNCHANGED <<unitVars, runs, cliVars>>

\* ---------------------------------------------------------------- specification
Next ==
  \/ \E q \in Questions : Submit(q)
  \/ Route1
  \/ Route2
  \/ DsSchema
  \/ DsStream
  \/ SdSchema
  \/ SdGenerate
  \/ SdExecute
  \/ SdExplain
  \/ ChStream
  \/ RpSchema
  \/ RpOutline
  \/ RpQuery
  \/ RpContent
  \/ RpAssemble
  \/ VzSchema
  \/ VzConfig
  \/ VzQuery
  \/ VzRender
  \/ ChatReturn
  \/ UIPost

Spec == Init /\ [][Next]_vars

\* one request of a fresh session, from the submission to the return of chat()
RequestNext ==
  \/ \E q \in Questions : Submit(q)
  \/ Route1
  \/ Route2
  \/ DsSchema
  \/ DsStream
  \/ SdSchema
  \/ SdGenerate
  \/ SdExecute
  \/ SdExplain
  \/ ChStream
  \/ RpSchema
  \/ RpOutline
  \/ RpQuery
  \/ RpContent
  \/ RpAssemble
  \/ VzSchema
  \/ VzConfig
  \/ VzQuery
  \/ VzRender
  \/ ChatReturn

RequestSpec == Init /\ [][RequestNext]_vars


\* ---------------------------------------------------------------- script runs
\* the prompt run r carries
Prompt(r) == <<"p1", "p2", "p3", "p4">>[r]

\* what chat(prompt, history) does, by its outcome: route_and_process returns an
\* answer or an apology, or it raises
ChatOutcomes ==
  {[ret |-> t, exc |-> NoStr] : t \in {Txt(<<"txt">>), MsgServiceSlow(SomeExc)}}
  \cup {[ret |-> NoStr, exc |-> AttributeError]}

\* a recording that keeps the new turn only
RecordOnly(h, q, a) == <<<<q, a>>>>

\* st.session_state["history"].append((prompt, response))
Record(h, q, a) == Append(h, <<q, a>>)

\* the other choice of the API radio
Other(api) == IF api = "openai" THEN "deepseek" ELSE "openai"

\* app.py main, `if not st.session_state["processing"]`: the run of a submitted
\* prompt (the input is enabled only while the API is connected) reads the flag;
\* with the flag set the prompt is dropped and the script ends
UITest(r) ==
  /\ runs[r].at = "input"
  /\ api_connected
  /\ runs' = [runs EXCEPT ![r].at = IF processing THEN "end" ELSE "set"]
  /\ UNCHANGED <<uiVars, history, processing, requestVars, unitVars, cliVars>>

\* `st.session_state["processing"] = True` and the call of chatbot.chat(prompt,
\* st.session_state["history"]), which is handed the session's list
UISet(r) ==
  /\ runs[r].at = "set"
  /\ processing' = TRUE
  /\ runs' = [runs EXCEPT ![r].at = IF chatbot = "None" THEN "clear" ELSE "chat",
                          ![r].detached = FALSE]
  /\ UNCHANGED <<uiVars, history, requestVars, unitVars, cliVars>>

\* chat() returns: it appended (prompt, result) to the list it was handed unless
\* route_and_process raised
UIChatReturn(r) ==
  /\ runs[r].at = "chat"
  /\ \E o \in ChatOutcomes :
       /\ history' = IF o.exc = NoStr /\ ~runs[r].detached
                     THEN Append(history, <<runs[r].prompt, o.ret>>)
                     ELSE history
       /\ runs' = [runs EXCEPT ![r].at = "post",
                               ![r].response = IF o.exc = NoStr THEN o.ret
                                               ELSE ChatCatch(o.exc).value]
  /\ UNCHANGED <<uiVars, processing, requestVars, unitVars, cliVars>>

\* `if not response.startswith("抱歉") and not response.startswith("错误")`: the
\* turn is appended to the session's history
UIRecord(r) ==
  /\ runs[r].at = "post"
  /\ history' = IF ~FailurePrefixed(runs[r].response)
                THEN Record(history, runs[r].prompt, runs[r].response)
                ELSE history
  /\ runs' = [runs EXCEPT ![r].at = "clear"]
  /\ UNCHANGED <<uiVars, processing, requestVars, unitVars, cliVars>>

\* a run that ends without clearing the flag
UIClearKeep(r) ==
  /\ runs[r].at = "clear"
  /\ runs' = [runs EXCEPT ![r].at = "end"]
  /\ UNCHANGED <<uiVars, history, processing, requestVars, unitVars, cliVars>>

\* `st.session_state["processing"] = False; st.rerun()`
UIClear(r) ==
  /\ runs[r].at = "clear"
  /\ processing' = FALSE
  /\ runs' = [runs EXCEPT ![r].at = "end"]
  /\ UNCHANGED <<uiVars, history, requestVars, unitVars, cliVars>>

\* an except clause that does not record the error
SwitchNoRecord(built) ==
  /\ api_type' = Other(api_type)
  /\ IF ~built
     THEN /\ chatbot' = chatbot
          /\ api_connected' = FALSE
          /\ api_error' = api_error
     ELSE /\ chatbot' = Bot(Other(api_type))
          /\ IF api_error = "absent"
             THEN api_connected' = FALSE /\ api_error' = "key_error"
             ELSE api_connected' = TRUE /\ api_error' = "absent"
  /\ UNCHANGED <<history, processing, runs, requestVars, unitVars, cliVars>>

\* the sidebar radio set to the other API: the session's api_type changes, a new
\* DBChatBot is built (built tells whether the constructor returned) and
\* api_error is deleted, which raises KeyError when the key is not set; every
\* exception ends in the except clause
Switch(built) ==
  /\ api_type' = Other(api_type)
  /\ IF ~built
     THEN /\ chatbot' = chatbot
          /\ api_connected' = FALSE
          /\ api_error' = "switch_failed"
     ELSE /\ chatbot' = Bot(Other(api_type))
          /\ IF api_error = "absent"
             THEN api_connected' = FALSE /\ api_error' = "key_error"
             ELSE api_connected' = TRUE /\ api_error' = "absent"
  /\ UNCHANGED <<history, processing, runs, requestVars, unitVars, cliVars>>

SwitchBackend == \E built \in BOOLEAN : Switch(built)

\* the clear button: session_state["history"] is bound to a new empty list; a
\* chat() call in flight still holds the old one
ClearHistory ==
  /\ history' = <<>>
  /\ runs' = [r \in Runs |->
               IF runs[r].at = "chat" THEN [runs[r] EXCEPT !.detached = TRUE] ELSE runs[r]]
  /\ UNCHANGED <<uiVars, processing, requestVars, unitVars, cliVars>>

\* a session in which every run carries a submitted prompt
UIInit ==
  /\ SessionInit
  /\ fn = "none"
  /\ args = NoStr
  /\ result = NoStr
  /\ runs = [r \in Runs |-> Run("input", Prompt(r), NoStr, FALSE)]
  /\ CliNone

UINext ==
  \/ \E r \in Runs : UITest(r)
  \/ \E r \in Runs : UISet(r)
  \/ \E r \in Runs : UIChatReturn(r)
  \/ \E r \in Runs : UIRecord(r)
  \/ \E r \in Runs : UIClear(r)
  \/ SwitchBackend
  \/ ClearHistory

UISpec == UIInit /\ [][UINext]_vars

\* ---------------------------------------------------------------- command line
\* chat_with_db.main: max_retries = 3
max_retries == 3

\* what the user types at the prompt
Inputs == Questions \cup {"quit"}

\* a retry loop that goes on to the next attempt after DBChatBot() returned
CliConstructNoBreak ==
  /\ cli_pc = "construct"
  /\ \E built \in BOOLEAN :
       /\ attempts' = Append(attempts, built)
       /\ cli_chatbot' = IF built THEN Bot("openai") ELSE cli_chatbot
       /\ cli_pc' = IF attempt < max_retries - 1 THEN "sleep"
                    ELSE IF built THEN "loop" ELSE "returned"
  /\ UNCHANGED <<attempt, user_input, cli_history, prompted>>
  /\ UNCHANGED <<sessionVars, unitVars, runs>>

\* one pass of `for attempt in range(max_retries)`: DBChatBot() returns (its llm
\* is the client object just built, which is true) and the loop is left by
\* break, or it raises: before the last attempt main sleeps and goes on, at the
\* last it returns
CliConstruct ==
  /\ cli_pc = "construct"
  /\ \E built \in BOOLEAN :
       /\ attempts' = Append(attempts, built)
       /\ cli_chatbot' = IF built THEN Bot("openai") ELSE cli_chatbot
       /\ cli_pc' = IF built THEN "loop"
                    ELSE IF attempt < max_retries - 1 THEN "sleep" ELSE "returned"
  /\ UNCHANGED <<attempt, user_input, cli_history, prompted>>
  /\ UNCHANGED <<sessionVars, unitVars, runs>>

\* time.sleep(retry_delay) is over: the next pass of the for loop
CliRetry ==
  /\ cli_pc = "sleep"
  /\ attempt' = attempt + 1
  /\ cli_pc' = "construct"
  /\ UNCHANGED <<attempts, cli_chatbot, user_input, cli_history, prompted>>
  /\ UNCHANGED <<sessionVars, unitVars, runs>>

\* `user_input = input(...)`; 'quit' in any case leaves the loop
CliInput ==
  /\ cli_pc = "loop"
  /\ prompted < MaxInputs
  /\ \E u \in Inputs :
       /\ user_input' = u
       /\ cli_pc' = IF u = "quit" THEN "exit" ELSE "chat"
  /\ prompted' = prompted + 1
  /\ UNCHANGED <<attempt, attempts, cli_chatbot, cli_history>>
  /\ UNCHANGED <<sessionVars, unitVars, runs>>

\* `response = chatbot.chat(user_input, history)`: chat() appends the turn to
\* the list it is handed unless route_and_process raised; the answer is printed
CliChat ==
  /\ cli_pc = "chat"
  /\ \E o \in ChatOutcomes :
       cli_history' = IF o.exc = NoStr
                      THEN Append(cli_history, <<user_input, o.ret>>)
                      ELSE cli_history
  /\ cli_pc' = "loop"
  /\ UNCHANGED <<attempt, attempts, cli_chatbot, user_input, prompted>>
  /\ UNCHANGED <<sessionVars, unitVars, runs>>

\* python chat_with_db.py: main() starts; no UI session exists
CliInit ==
  /\ SessionInit
  /\ chatbot = "None"
  /\ fn = "none"
  /\ args = NoStr
  /\ result = NoStr
  /\ runs = NoRuns
  /\ cli_pc = "construct"
  /\ attempt = 0
  /\ attempts = <<>>
  /\ cli_chatbot = "None"
  /\ user_input = "None"
  /\ cli_history = <<>>
  /\ prompted = 0

CliNext ==
  \/ CliConstruct
  \/ CliRetry
  \/ CliInput
  \/ CliChat

CliSpec == CliInit /\ [][CliNext]_vars

\* ---------------------------------------------------------------- the functions alone
\* the prefixes the calls are checked with
UnitPrefixes == {"thinking", "sql_generation"}

\* a function and the arguments it is called with
UnitCalls ==
  {[fn |-> "run_query", args |-> [dbo |-> o]] : o \in QueryOutcomes}
  \cup {[fn |-> "get_schema", args |-> [db |-> d]] : d \in Databases}
  \cup {[fn |-> "get_partial_schema",
          args |-> [db |-> d, max_tables |-> n, max_columns |-> m]] :
           d \in Databases, n \in 1..MaxLimit, m \in 1..MaxLimit}
  \cup {[fn |-> "handle_streaming", args |-> [stream |-> st, error_prefix |-> p]] :
           st \in Streams, p \in UnitPrefixes}
  \cup {[fn |-> "clean_json_response", args |-> [response |-> t]] : t \in RouterAnswers}
  \cup {[fn |-> "generate_chart_sections", args |-> [charts_data |-> c]] : c \in ChartCalls}

UnitInit ==
  /\ SessionInit
  /\ \E c \in UnitCalls : fn = c.fn /\ args = c.args
  /\ result = NoStr
  /\ runs = NoRuns
  /\ CliNone

CallRunQuery ==
  /\ fn = "run_query"
  /\ result = NoStr
  /\ result' = run_query(args.dbo)
  /\ UNCHANGED <<sessionVars, fn, args, runs, cliVars>>

CallGetSchema ==
  /\ fn = "get_schema"
  /\ result = NoStr
  /\ result' = get_schema(args.db)
  /\ UNCHANGED <<sessionVars, fn, args, runs, cliVars>>

CallGetPartialSchema ==
  /\ fn = "get_partial_schema"
  /\ result = NoStr
  /\ result' = get_partial_schema(args.db, args.max_tables, args.max_columns)
  /\ UNCHANGED <<sessionVars, fn, args, runs, cliVars>>

CallHandleStreaming ==
  /\ fn = "handle_streaming"
  /\ result = NoStr
  /\ result' = handle_streaming(args.stream, args.error_prefix)
  /\ UNCHANGED <<sessionVars, fn, args, runs, cliVars>>

CallCleanJsonResponse ==
  /\ fn = "clean_json_response"
  /\ result = NoStr
  /\ result' = clean_json_response(args.response)
  /\ UNCHANGED <<sessionVars, fn, args, runs, cliVars>>

CallGenerateChartSections ==
  /\ fn = "generate_chart_sections"
  /\ result = NoStr
  /\ result' = generate_chart_sections(args.charts_data)
  /\ UNCHANGED <<sessionVars, fn, args, runs, cliVars>>

UnitNext ==
  \/ CallRunQuery
  \/ CallGetSchema
  \/ CallGetPartialSchema
  \/ CallHandleStreaming
  \/ CallCleanJsonResponse
  \/ CallGenerateChartSections

UnitSpec == UnitInit /\ [][UnitNext]_vars

\* ---------------------------------------------------------------- properties
\* the calls of kind op the request made, in order
Events(op) == SelectSeq(calls, LAMBDA e : e.op = op)
HasEvent(op) == \E i \in 1..Len(calls) : calls[i].op = op
\* chat() has returned to the UI
Ended == pc \in {"ui_post", "done"}
\* route_and_process has returned or raised
ReturnedPcs == {"chat_ret", "ui_post", "done", "idle"}
Returned == pc \in ReturnedPcs

StreamPrefixes ==
  {"structure_analysis", "sql_generation", "result_analysis", "outline_generation",
   "content_generation", "chart_config_generation", "thinking"}

\* first token of each failure text the pipeline builds
FailureHeads ==
  {"SORRY", "route_not_valid_json", "route_missing_type", "unknown_type",
   "sub_route_not_valid_json", "sub_route_failed", "sub_route_missing_sub_type",
   "unknown_sub_type", "get_schema_failed", "connect_service_failed",
   "outline_format_invalid", "outline_validation_failed", "outline_processing",
   "generate_report", "chart_config_format_invalid", "chart_config_missing_fields",
   "unsupported_chart_type", "chart_config_processing", "query_data",
   "parse_result_failed", "generate_chart", "static_chart_file_failed",
   "interactive_chart_file_failed"}

\* r is one of the failure texts: a failure message of routing or of a handler,
\* or the timeout / failure text of the gateway call
IsFailureMessage(r) ==
  /\ Len(r.toks) > 0
  /\ \/ r.toks[1] \in FailureHeads
     \/ /\ Len(r.toks) > 1
        /\ r.toks[1] \in StreamPrefixes
        /\ r.toks[2] \in {"TIMEOUT_ZH", "FAIL"}

\* C1: from an empty session history, an exchange whose chat() call returns a
\* failure-prefixed string leaves the history empty (so it stays empty after
\* any number of failed exchanges)
C1_FailedTurnNotRecorded ==
  (pc = "done" /\ startHist = <<>> /\ FailurePrefixed(response))
    => Len(history) = 0

\* C2: a successful exchange (chat() returns a string that is not
\* failure-prefixed) started with a history of length k ends with a history of
\* length k + 1 whose last element is (question, result)
C2_SuccessAppendsOneTurn ==
  (pc = "done" /\ ~FailurePrefixed(response))
    => /\ Len(history) = Len(startHist) + 1
       /\ history[Len(history)] = <<question, response>>

\* C3: chat() never raises: no exception reaches the UI, chat() returns a string,
\* and an exception that left route_and_process becomes the apology carrying
\* its message
C3_ChatNeverRaises ==
  /\ pc # "ui_except"
  /\ uiExc = NoStr
  /\ Ended => /\ response # NoStr
              /\ exc # NoStr => response = MsgApology(exc)

C3_Witness == pc = "done" /\ exc # NoStr /\ response = MsgApology(exc)

\* C4: every failure result chat() returns begins with a prefix the UI's failure
\* test recognizes
C4_FailuresArePrefixed ==
  (Ended /\ IsFailureMessage(response)) => FailurePrefixed(response)

\* the dispatch table as the spec gives it
TableHandler(top, sub) ==
  CASE top = "sql_query" /\ sub = "db_structure" -> "handle_db_structure"
    [] top = "sql_query" /\ sub = "sql_data" -> "handle_sql_data"
    [] top = "report" -> "handle_report"
    [] top = "visualization" -> "handle_visualization"
    [] top = "chat" -> "handle_chat"
    [] OTHER -> "none"

\* the steps of each handler
HandlerPcs(h) ==
  CASE h = "handle_db_structure" -> {"ds_schema", "ds_stream"}
    [] h = "handle_sql_data" -> {"sd_schema", "sd_generate", "sd_execute", "sd_explain"}
    [] h = "handle_report" -> {"rp_schema", "rp_outline", "rp_loop", "rp_assemble"}
    [] h = "handle_visualization" -> {"vz_schema", "vz_config", "vz_query", "vz_render"}
    [] h = "handle_chat" -> {"ch_stream"}
    [] OTHER -> {}

\* routing succeeded: the classification is one of the five rows of the table
Routed == TableHandler(top_type, sub_type) # "none"

\* C5: after successful routing exactly one handler is invoked, the one the
\* dispatch table gives, and route_and_process returns its return value unchanged
C5_DispatchTable ==
  LET handlers == Events("handler")
      h == TableHandler(top_type, sub_type)
  IN /\ Len(handlers) <= 1
     /\ Routed => /\ handlers = <<Called(h)>>
                  /\ pc \in HandlerPcs(h) \cup ReturnedPcs
     /\ (Returned /\ hret # NoStr) => ret = hret

C5_Witness ==
  /\ pc = "done" /\ top_type = "sql_query" /\ sub_type = "sql_data"
  /\ Events("handler") = <<Called("handle_sql_data")>>
  /\ hret # NoStr /\ ret = hret

\* C6: the second classification call is made iff the first yielded sql_query;
\* no sub_type exists for another type, and a sql_query request reaches a
\* handler only with a sub_type
C6_SubRouteIffSqlQuery ==
  LET n == Len(Events("invoke"))
  IN /\ n <= 2
     /\ n = 2 => top_type = "sql_query"
     /\ (top_type = "sql_query" /\ pc # "route2") => n = 2
     /\ sub_type # "None" => top_type = "sql_query"
     /\ (top_type = "sql_query" /\ HasEvent("handler")) => sub_type \in SubTypes

C6_Witness ==
  /\ pc = "done" /\ top_type = "sql_query" /\ Len(Events("invoke")) = 2
  /\ HasEvent("handler") /\ sub_type = "db_structure"

\* the answer text of a classification call is no JSON object, lacks key, or
\* carries a value outside allowed
BadAnswer(text, key, allowed) ==
  \/ text.json.kind # "object"
  \/ key \notin text.json.has
  \/ text.json.val[key] \notin allowed

\* some classification call of the request was answered with a bad answer
ClassificationFailed ==
  \E i \in 1..Len(calls) :
    /\ calls[i].op = "invoke"
    /\ calls[i].err = NoStr
    /\ IF calls[i].arg = Txt(<<"router_prompt">>)
       THEN BadAnswer(calls[i].out, "type", TopTypes)
       ELSE BadAnswer(calls[i].out, "sub_type", SubTypes)

ClassificationErrorHeads ==
  {"route_not_valid_json", "route_missing_type", "unknown_type",
   "sub_route_not_valid_json", "sub_route_missing_sub_type", "unknown_sub_type"}

\* C7: classification fails closed: after a bad classification answer no handler
\* is invoked, no SQL is executed and no incremental call is made, and the
\* request ends with an error text about the classification
C7_ClassificationFailsClosed ==
  ClassificationFailed =>
    /\ \A i \in 1..Len(calls) : calls[i].op = "invoke"
    /\ Returned
    /\ Ended => \/ response.toks[1] \in ClassificationErrorHeads
                \/ response = MsgApology(AttributeError)

C7_Witness ==
  /\ pc = "done" /\ ClassificationFailed
  /\ response = MsgUnknownSubType("other")

\* C8: when an incremental gateway call fails, no later stage runs and chat()
\* returns an error message (no envelope, no normal answer)
C8_NoErrorDropped ==
  \A i \in 1..Len(calls) :
    (calls[i].op = "stream" /\ calls[i].err # NoStr) =>
      /\ \A j \in (i + 1)..Len(calls) :
           calls[j].op \notin {"sql", "stream", "render", "assemble"}
      /\ Ended => IsFailureMessage(response)

\* entry i of outline["queries"] was executed and db.run raised / returned
QueryFailed(i) ==
  \E k \in 1..Len(calls) :
    /\ calls[k].op = "sql"
    /\ calls[k].arg = Txt(<<"sql_of_query", QName(i)>>)
    /\ calls[k].err # NoStr
QuerySucceeded(i) ==
  \E k \in 1..Len(calls) :
    /\ calls[k].op = "sql"
    /\ calls[k].arg = Txt(<<"sql_of_query", QName(i)>>)
    /\ calls[k].err = NoStr

\* C9: when some query of a well-formed outline (every entry has name and sql)
\* fails during execution, every other query is still executed, query_results holds exactly the queries that succeeded,
\* stages 3 and 4 run, and the failure is not the handler's result
C9_QueryFailureTolerated ==
  (/\ top_type = "report" /\ Returned /\ outline.kind = "object"
   /\ \A i \in 1..Len(outline.queries) : {"name", "sql"} \subseteq outline.queries[i]
   /\ \E i \in 1..Len(outline.queries) : QueryFailed(i))
    => /\ exc = NoStr
       /\ \A i \in 1..Len(outline.queries) :
            "sql" \in outline.queries[i] => (QueryFailed(i) \/ QuerySucceeded(i))
       /\ {query_results[k] : k \in 1..Len(query_results)}
            = {i \in 1..Len(outline.queries) : QuerySucceeded(i)}
       /\ \E k \in 1..Len(calls) :
            calls[k].op = "stream" /\ calls[k].arg = Txt(<<"content_generation">>)
       /\ HasEvent("assemble")

\* C10: a streamed config that lacks required fields, or whose chart_type is not
\* allowed, is answered with the error string naming the missing fields (resp.
\* the type); its SQL is not executed and the renderer is not invoked
C10_ConfigValidatedFirst ==
  \A i \in 1..Len(calls) :
    (/\ calls[i].op = "stream"
     /\ calls[i].arg = Txt(<<"chart_config_generation">>)
     /\ calls[i].err = NoStr
     /\ calls[i].out.toks = <<"JSON">>
     /\ calls[i].out.json.kind = "object")
    => LET c == calls[i].out.json
           miss == {f \in AllFields : f \notin c.has}
       IN (miss # {} \/ c.chart_type \notin ValidChartTypes) =>
            /\ ~HasEvent("sql")
            /\ ~HasEvent("render")
            /\ Returned
            /\ miss # {} => /\ hret.toks[1] = "chart_config_missing_fields"
                            /\ \A f \in miss : Contains(hret, f)
            /\ miss = {} => hret = MsgChartType(c.chart_type)

\* the handler the request was dispatched to, "none" before dispatch
Handler ==
  IF Events("handler") = <<>> THEN "none" ELSE Events("handler")[1].arg.toks[1]

\* no query, gateway, assembler or renderer call follows call i
NoLaterStage(i) ==
  \A j \in (i + 1)..Len(calls) :
    calls[j].op \notin {"sql", "stream", "assemble", "render"}

\* a zero-row result of db.run
ZeroRows == {EmptyStr, Txt(<<"[]">>)}

IsVisualizationEnvelope(r) ==
  r.json.kind = "envelope" /\ r.json.type = "visualization"
IsReportEnvelope(r) == r.json.kind = "envelope" /\ r.json.type = "report"

\* the renderer returned and both artifact files exist
BothFilesExist(e) ==
  e.err = NoStr /\ e.out = Txt(<<"static_exists", "interactive_exists">>)

\* C11: handle_visualization returns a Visualization envelope only if the
\* renderer returned and both the static and the interactive file exist; when
\* the renderer returned and a file is missing it returns an error string
C11_EnvelopeOnlyWithBothFiles ==
  /\ IsVisualizationEnvelope(hret) =>
       \E i \in 1..Len(calls) : calls[i].op = "render" /\ BothFilesExist(calls[i])
  /\ \A i \in 1..Len(calls) :
       (calls[i].op = "render" /\ calls[i].err = NoStr /\ ~BothFilesExist(calls[i]))
         => /\ ~IsVisualizationEnvelope(hret)
            /\ hret \in {MsgStaticMissing, MsgInteractiveMissing}
  /\ (Ended /\ IsVisualizationEnvelope(response)) => response = hret

C11_Witness ==
  /\ pc = "done"
  /\ \E i \in 1..Len(calls) :
       /\ calls[i].op = "render"
       /\ calls[i].out = Txt(<<"static_exists", "interactive_missing">>)
  /\ response = MsgInteractiveMissing

\* C12: when config.sql runs without a SQL error and yields zero rows,
\* handle_visualization returns the no-data message and does not call the renderer
C12_EmptyResultIsNoData ==
  \A i \in 1..Len(calls) :
    (/\ calls[i].op = "sql"
     /\ calls[i].arg = Txt(<<"config_sql">>)
     /\ calls[i].err = NoStr
     /\ calls[i].out \in ZeroRows)
    => hret = MsgNoData /\ ~HasEvent("render")

\* the first of title, sections, queries that the JSON value v lacks
FirstLacking(v) ==
  LET has == IF v.kind = "object" THEN v.has ELSE {}
  IN IF "title" \notin has THEN "title"
     ELSE IF "sections" \notin has THEN "sections"
     ELSE IF "queries" \notin has THEN "queries"
     ELSE "None"

C14_AssemblerFailure ==
  /\ \A i \in 1..Len(calls) :
       calls[i].op = "assemble" =>
         IF calls[i].err # NoStr
         THEN hret = MsgReportFailed(calls[i].err) /\ ~IsReportEnvelope(hret)
         ELSE /\ IsReportEnvelope(hret)
              /\ Txt(<<hret.json.format, hret.json.path>>) = calls[i].out
              /\ hret.json.title = "title"
  /\ IsReportEnvelope(hret) =>
       \E i \in 1..Len(calls) : calls[i].op = "assemble" /\ calls[i].err = NoStr

C14_Witness ==
  /\ pc = "done"
  /\ \E i \in 1..Len(calls) : calls[i].op = "assemble" /\ calls[i].err # NoStr
  /\ StartsWith(response, "generate_report")

\* the string get_partial_schema returned encodes an internal error
SchemaFetchFailed(ps) == ~StartsWith(ps, "schema_header")

\* C15: in handle_db_structure and handle_visualization a failed schema fetch is
\* answered with the schema-failure message; no gateway call is made, no SQL is
\* executed and no chart is rendered
C15_SchemaFailureRejected ==
  \A i \in 1..Len(calls) :
    (/\ calls[i].op = "schema"
     /\ Handler \in {"handle_db_structure", "handle_visualization"}
     /\ SchemaFetchFailed(calls[i].out))
    => /\ hret = MsgSchemaFailed(calls[i].out)
       /\ \A j \in 1..Len(calls) : calls[j].op \notin {"stream", "sql", "render"}

\* C20: when the generated statement executes and yields zero rows,
\* handle_sql_data raises nothing, runs stage 3 and returns its text
C20_ZeroRowsExplained ==
  \A i \in 1..Len(calls) :
    (/\ calls[i].op = "sql"
     /\ calls[i].err = NoStr
     /\ calls[i].out \in ZeroRows
     /\ Handler = "handle_sql_data")
    => /\ exc = NoStr
       /\ pc \in {"sd_explain"} \cup ReturnedPcs
       /\ Returned =>
            /\ Len(calls) = i + 1
            /\ calls[i + 1].op = "stream"
            /\ calls[i + 1].arg = Txt(<<"result_analysis">>)
            /\ hret = calls[i + 1].out

C20_Witness ==
  /\ pc = "done"
  /\ Handler = "handle_sql_data"
  /\ \E i \in 1..Len(calls) :
       calls[i].op = "sql" /\ calls[i].err = NoStr /\ calls[i].out = EmptyStr
  /\ response = Txt(<<"txt">>)

\* the function called alone has returned or raised
Called1(f) == fn = f /\ result # NoStr

\* a db.run call the function made raised
DbRaised ==
  IF fn = "run_query" THEN args.dbo.exc # NoStr
  ELSE /\ args.db.fault = "raise"
       /\ args.db.faultAt >= 1
       /\ args.db.faultAt <= result.ncalls

\* the message of the exception db.run raised
DbMessage == IF fn = "run_query" THEN args.dbo.exc ELSE SomeExc

\* the start of the failure text of each boundary function
DiagnosticHead ==
  CASE fn = "run_query" -> <<"query_exec", "ERROR">>
    [] fn = "get_schema" -> <<"get_schema", "FAIL">>
    [] fn = "get_partial_schema" -> <<"get_partial_schema", "FAIL">>

C17_EmptyStreamIsError ==
  (/\ Called1("handle_streaming")
   /\ args.stream.exc = NoStr
   /\ \A i \in 1..Len(args.stream.frags) : args.stream.frags[i] = "EMPTY")
    => /\ result.value # EmptyStr
       /\ IsFailureMessage(result.value)

\* the message holds the word in some spelling
HasTimeout(e) == \E i \in 1..Len(e.toks) : e.toks[i] \in {"timeout", "Timeout"}
HasConnection(e) == \E i \in 1..Len(e.toks) : e.toks[i] \in {"connection", "Connection"}

\* C18: _handle_streaming never raises; an exception is mapped by its message to
\* Timeout if it holds "timeout" (any case), else to ConnectionFailure if it holds
\* "connection" (any case), else to Other with the message; the fragments
\* received before the failure are not in the result
C18_FailureTaxonomy ==
  Called1("handle_streaming") =>
    /\ result.raised = NoStr
    /\ args.stream.exc # NoStr =>
         /\ result.value =
              IF HasTimeout(args.stream.exc)
              THEN Txt(<<args.error_prefix, "TIMEOUT_ZH", "retry_later">>)
              ELSE IF HasConnection(args.stream.exc)
              THEN Txt(<<"connect_service_failed">>)
              ELSE Txt(<<args.error_prefix, "FAIL">> \o args.stream.exc.toks)
         /\ ~Contains(result.value, "txt")

C18_Witness ==
  /\ Called1("handle_streaming")
  /\ args.stream.exc = Txt(<<"Connection", "timeout">>)
  /\ args.stream.frags = <<"txt", "txt">>
  /\ result.value = Txt(<<args.error_prefix, "TIMEOUT_ZH", "retry_later">>)

\* number of tokens t in the text
Count(s, t) == Cardinality({i \in 1..Len(s.toks) : s.toks[i] = t})

\* the text holds more than m column lines in a row
LongColumnRun(s, m) ==
  \E i \in 1..Len(s.toks) :
    /\ i + m <= Len(s.toks)
    /\ \A j \in i..(i + m) : s.toks[j] = "col"

\* C19: with no metadata query failing, get_partial_schema describes at most
\* max_tables tables and at most max_columns columns per table, and its output
\* holds a truncation marker iff the database has more than max_tables tables
C19_TruncationMarked ==
  (Called1("get_partial_schema") /\ args.db.faultAt = 0) =>
    /\ Count(result.value, "table_name") <= args.max_tables
    /\ ~LongColumnRun(result.value, args.max_columns)
    /\ Contains(result.value, "truncation_marker") <=> args.db.tables > args.max_tables

\* the two bounds of C19 alone
C19_AtMostLimits ==
  (Called1("get_partial_schema") /\ args.db.faultAt = 0) =>
    /\ Count(result.value, "table_name") <= args.max_tables
    /\ ~LongColumnRun(result.value, args.max_columns)

\* ---------------------------------------------------------------- the stages of a request
\* the text of stage 1 of handle_sql_data holds 出错 or 超时
HoldsMarker(t) == Contains(t, "FAIL") \/ Contains(t, "TIMEOUT_ZH")

\* call i is stage 1 of handle_sql_data
IsSqlGeneration(i) ==
  calls[i].op = "stream" /\ calls[i].arg = Txt(<<"sql_generation">>)

\* C23: when the text stage 1 of handle_sql_data produced holds 出错 or 超时, the
\* handler returns that text; run_query and the explanation call are not made
C23_EarlyExitOnMarker ==
  \A i \in 1..Len(calls) :
    (IsSqlGeneration(i) /\ HoldsMarker(calls[i].out)) =>
      /\ Returned
      /\ exc = NoStr
      /\ hret = calls[i].out
      /\ NoLaterStage(i)

C23_Witness ==
  /\ Ended
  /\ \E i \in 1..Len(calls) :
       /\ IsSqlGeneration(i)
       /\ calls[i].err # NoStr
       /\ calls[i].out = Txt(<<"sql_generation", "TIMEOUT_ZH", "retry_later">>)
  /\ response = Txt(<<"sql_generation", "TIMEOUT_ZH", "retry_later">>)

\* C24: when the SQL-generation call fails (timeout, connection failure, other)
\* or yields no text, run_query is not called
C24_ExecuteOnlyAfterSuccess ==
  \A i \in 1..Len(calls) :
    (IsSqlGeneration(i) /\ (calls[i].err # NoStr \/ calls[i].out = EmptyStr)) =>
      \A j \in 1..Len(calls) : calls[j].op # "sql"

\* C25: in handle_sql_data run_query is called at most once; when the statement
\* fails, run_query's error string is the result, the explanation call is made
\* next and its text is what the handler returns; the handler raises nothing
\* and does not return the error string
C25_SqlErrorIsData ==
  Handler = "handle_sql_data" =>
    /\ Len(Events("sql")) <= 1
    /\ \A i \in 1..Len(calls) :
         (calls[i].op = "sql" /\ calls[i].err # NoStr) =>
           /\ exc = NoStr
           /\ calls[i].out = Cat(Txt(<<"query_exec", "ERROR">>), calls[i].err)
           /\ pc \in {"sd_explain"} \cup ReturnedPcs
           /\ Returned =>
                /\ Len(calls) = i + 1
                /\ calls[i + 1].op = "stream"
                /\ calls[i + 1].arg = Txt(<<"result_analysis">>)
                /\ hret = calls[i + 1].out
                /\ hret # calls[i].out

C25_Witness ==
  /\ Ended
  /\ Handler = "handle_sql_data"
  /\ \E i \in 1..Len(calls) : calls[i].op = "sql" /\ calls[i].err # NoStr
  /\ response = Txt(<<"txt">>)

\* C26: in handle_sql_data and handle_report too, after a failed schema fetch
\* no gateway call is made and no SQL is executed
C26_SchemaCheckedEverywhere ==
  \A i \in 1..Len(calls) :
    (/\ calls[i].op = "schema"
     /\ SchemaFetchFailed(calls[i].out)
     /\ Handler \in {"handle_sql_data", "handle_report"})
    => \A j \in 1..Len(calls) : calls[j].op \notin {"stream", "sql"}

\* the gateway, database and assembler calls of the request, in order
Stages == SelectSeq(calls, LAMBDA e : e.op \in {"stream", "sql", "assemble"})

\* the stage a call belongs to
StageName(e) == IF e.op = "stream" THEN e.arg.toks[1] ELSE e.op

IsPrefixOf(s, t) == Len(s) <= Len(t) /\ SubSeq(t, 1, Len(s)) = s

\* the index in outline["queries"] of the entry a query call executed
QIndex(e) == CHOOSE i \in 1..6 : QName(i) = e.arg.toks[2]

\* C27: the stages of a request run in order, one having returned before the
\* next is called: in handle_sql_data generation, execution, explanation; in
\* handle_report the outline, then the queries in the outline's order, then,
\* all entries done, the body, then the assembler
C27_StagesInOrder ==
  LET st == Stages
      n == Len(st)
      names == [i \in 1..n |-> StageName(st[i])]
  IN /\ Handler = "handle_sql_data" =>
          IsPrefixOf(names, <<"sql_generation", "sql", "result_analysis">>)
     /\ Handler = "handle_report" =>
          /\ n >= 1 => names[1] = "outline_generation"
          /\ \A i \in 2..n :
               CASE names[i] = "sql" ->
                      \/ names[i - 1] = "outline_generation"
                      \/ names[i - 1] = "sql" /\ QIndex(st[i - 1]) < QIndex(st[i])
                 [] names[i] = "content_generation" ->
                      /\ names[i - 1] \in {"outline_generation", "sql"}
                      /\ qi > Len(outline.queries)
                      /\ \A k \in 1..Len(outline.queries) :
                           "sql" \in outline.queries[k] =>
                             \E j \in 2..(i - 1) : names[j] = "sql" /\ QIndex(st[j]) = k
                 [] names[i] = "assemble" -> names[i - 1] = "content_generation" /\ i = n
                 [] OTHER -> FALSE

C27_Witness ==
  /\ Ended
  /\ Handler = "handle_report"
  /\ Len(Events("sql")) = 2
  /\ HasEvent("assemble")
  /\ IsReportEnvelope(response)

\* the prompts of the two classification calls
RouterPrompts == {Txt(<<"router_prompt">>), Txt(<<"sql_router_prompt">>)}

\* C28: both classification calls are blocking calls, and every schema fetch,
\* incremental gateway call and SQL execution of a request comes after its last
\* classification call: one call, two for sql_query
C28_ClassificationFirst ==
  /\ \A i \in 1..Len(calls) :
       /\ calls[i].arg \in RouterPrompts <=> calls[i].op = "invoke"
       /\ calls[i].op = "invoke" => \A j \in 1..(i - 1) : calls[j].op = "invoke"
       /\ calls[i].op \in {"schema", "stream", "sql"} =>
            /\ i > (IF top_type = "sql_query" THEN 2 ELSE 1)
            /\ calls[1].op = "invoke" /\ calls[1].err = NoStr
            /\ top_type = "sql_query" => calls[2].op = "invoke" /\ calls[2].err = NoStr

C28_Witness ==
  /\ Ended
  /\ top_type = "sql_query"
  /\ Len(Events("invoke")) = 2
  /\ HasEvent("schema") /\ HasEvent("stream") /\ HasEvent("sql")

\* entry k of outline["queries"] lacks name or sql
Malformed(k) == ~({"name", "sql"} \subseteq outline.queries[k])

\* C30: a query entry lacking name or sql is skipped: nothing leaves
\* handle_report as an exception, the later entries are still gone through and
\* the body and the assembler calls are made
C30_MalformedEntrySkipped ==
  (/\ Handler = "handle_report"
   /\ outline.kind = "object"
   /\ \E k \in 1..Len(outline.queries) : k < qi /\ Malformed(k))
  => /\ exc = NoStr
     /\ pc \in {"rp_loop", "rp_assemble"} \cup ReturnedPcs
     /\ Returned => qi > Len(outline.queries) /\ HasEvent("assemble")

\* ---------------------------------------------------------------- sanitizing
\* the token sequence t holds three backquotes in a row
HasFence(t) == \E i \in 1..Len(t) : i + 2 <= Len(t) /\ SubSeq(t, i, i + 2) = Fence

\* C29: the text _clean_json_response returns holds no code fence, no line feed
\* and no carriage return
C29_CleanedIsSanitized ==
  (Called1("clean_json_response")) =>
    /\ ~HasFence(result.value.toks)
    /\ \A i \in 1..Len(result.value.toks) : result.value.toks[i] \notin {"NL", "CR"}

\* the returned text holds no line feed and no carriage return
C29_NoLineBreaks ==
  (Called1("clean_json_response")) =>
    \A i \in 1..Len(result.value.toks) : result.value.toks[i] \notin {"NL", "CR"}

\* ---------------------------------------------------------------- the session
\* the runs whose chat() call is in flight
InFlight == {r \in Runs : runs[r].at = "chat"}

\* C21: at most one chat() call of a session is in flight
C21_AtMostOneInFlight == Cardinality(InFlight) <= 1

\* a run that read the flag while it was set ends without calling chat()
C21_SetFlagBlocks ==
  [][\A r \in Runs :
       (runs[r].at = "input" /\ runs'[r].at # "input" /\ processing)
         => runs'[r].at = "end"]_vars

\* C22: every step leaves the session history unchanged or appends turns at its
\* end
C22_HistoryAppendOnly == [][IsPrefixOf(history, history')]_vars

\* C22, amended: every step leaves the session history unchanged, appends turns
\* at its end, or empties it (the clear button); recorded turns are never
\* modified, reordered or removed singly
C22_AppendOrCleared == [][IsPrefixOf(history, history') \/ history' = <<>>]_vars

C22_Witness ==
  /\ \A r \in Runs : runs[r].at = "end"
  /\ Len(history) >= 3
  /\ history[1][1] # history[Len(history)][1]

\* ---------------------------------------------------------------- report lists
\* handle_report has called the gateway for the report body
ReachedContent ==
  \E i \in 1..Len(calls) :
    calls[i].op = "stream" /\ calls[i].arg = Txt(<<"content_generation">>)

\* the query call of entry k of outline["queries"], if it was made
QueryCalls(k) == {i \in 1..Len(calls) : calls[i].op = "sql" /\ QIndex(calls[i]) = k}

\* entry k was executed and its result parsed
Succeeded(k) ==
  \E i \in QueryCalls(k) : calls[i].err = NoStr /\ LiteralEval(calls[i].out).ok

\* entry k was executed and db.run raised or its result did not parse
Failed(k) ==
  \E i \in QueryCalls(k) : calls[i].err # NoStr \/ ~LiteralEval(calls[i].out).ok

Increasing(s) == \A i, j \in 1..Len(s) : i < j => s[i] < s[j]

Elems(s) == {s[i] : i \in 1..Len(s)}

\* C31: when handle_report has reached the body stage, every entry of
\* charts_data is an entry of query_results whose query succeeded, a failed
\* query is in neither list, and both lists are in the outline's query order
C31_ListsConsistent ==
  (Handler = "handle_report" /\ ReachedContent)
  => /\ Elems(charts_data) \subseteq Elems(query_results)
     /\ \A k \in Elems(query_results) : Succeeded(k)
     /\ \A k \in 1..Len(outline.queries) :
          Failed(k) => k \notin Elems(charts_data) \cup Elems(query_results)
     /\ Increasing(charts_data) /\ Increasing(query_results)

C31_Witness ==
  /\ Handler = "handle_report"
  /\ ReachedContent
  /\ charts_data # <<>>
  /\ \E k \in 1..Len(outline.queries) : Failed(k)

\* ---------------------------------------------------------------- chart files
\* the charts, by position in the call order, whose files were written
Written ==
  IF fn = "generate_chart_sections" /\ result # NoStr
  THEN {i \in 1..Len(result.value) : ~result.value[i].raised}
  ELSE {}

\* C32: no chart overwrites the files of an earlier one: any two
\* generate_chart calls that wrote files wrote distinct static paths and
\* distinct interactive paths
C32_DistinctPaths ==
  \A i, j \in Written :
    i # j => /\ result.value[i].static_path # result.value[j].static_path
             /\ result.value[i].interactive_path # result.value[j].interactive_path

\* calls whose clock readings differ do write distinct files
C32_DistinctSeconds ==
  \A i, j \in Written :
    (/\ i # j
     /\ args.charts_data[i].t_static # args.charts_data[j].t_static
     /\ args.charts_data[i].t_interactive # args.charts_data[j].t_interactive)
    => /\ result.value[i].static_path # result.value[j].static_path
       /\ result.value[i].interactive_path # result.value[j].interactive_path

\* ---------------------------------------------------------------- the flag
\* the runs that have set the flag and not yet cleared it
Holding == {r \in Runs : runs[r].at \in {"chat", "post", "clear"}}

\* C33: the processing flag is set only while a run that set it has not ended:
\* whatever chat() did, every run that set the flag clears it before it ends, so
\* with no such run left the flag is False and the next submission is taken
C33_FlagReleased == processing => Holding # {}

\* the step that ends a run after its chat() call leaves the flag False
C33_ClearedAtEnd ==
  [][\A r \in Runs :
       (r \in Holding /\ runs'[r].at = "end") => ~processing']_vars

C33_Witness ==
  /\ ~processing
  /\ \A r \in Runs : runs[r].at = "end"
  /\ \E r \in Runs : runs[r].response = Txt(<<"txt">>)
  /\ \E r \in Runs : FailurePrefixed(runs[r].response)

\* ---------------------------------------------------------------- the backend
\* C34: a switch whose constructor returned leaves the new orchestrator
\* installed, api_type equal to the selection and api_connected True, whether
\* or not api_error was set before
C34_SwitchSucceeds ==
  [][Switch(TRUE) => /\ chatbot' = Bot(Other(api_type))
                     /\ api_type' = Other(api_type)
                     /\ api_connected']_vars

\* a switch whose constructor returned installs the orchestrator and sets
\* api_type; it leaves the session connected when api_error was set before
C34_SwitchWithError ==
  [][Switch(TRUE) => /\ chatbot' = Bot(Other(api_type))
                     /\ api_type' = Other(api_type)
                     /\ (api_error # "absent" => api_connected')]_vars

\* C35: a connected session has an orchestrator, a disconnected one has an
\* api_error recorded, and a run that passed the input gate calls chat() on an
\* orchestrator that exists
C35_ConnectedHasOrchestrator ==
  /\ api_connected => chatbot # "None"
  /\ ~api_connected => api_error # "absent"
  /\ \A r \in Runs : runs[r].at \in {"set", "chat"} => chatbot # "None"

C35_Witness ==
  /\ ~api_connected
  /\ api_error = "switch_failed"
  /\ chatbot # "None"
  /\ \E r \in Runs : runs[r].at = "chat"

\* ---------------------------------------------------------------- command line
\* C36: DBChatBot() is called at most max_retries times, a call after the first
\* only when the one before raised; the question loop is entered only with an
\* orchestrator some attempt produced; after max_retries failed attempts main
\* has returned and never prompts
C36_BoundedRetries ==
  /\ Len(attempts) <= max_retries
  /\ \A i \in 2..Len(attempts) : ~attempts[i - 1]
  /\ (prompted > 0 \/ cli_pc \in {"loop", "chat", "exit"})
       => /\ \E i \in 1..Len(attempts) : attempts[i]
          /\ cli_chatbot # "None"
  /\ (Len(attempts) = max_retries /\ \A i \in 1..max_retries : ~attempts[i])
       => cli_pc = "returned" /\ prompted = 0

C36_Witness ==
  /\ attempts = <<FALSE, FALSE, TRUE>>
  /\ prompted > 0
  /\ cli_history # <<>>

\* main has returned after max_retries failed attempts
C36_GaveUp == cli_pc = "returned" /\ Len(attempts) = max_retries

====
